---- MODULE Spec2Model ----
(***************************************************************************)
(* Standard matching and compliance evaluation of lighting reports:        *)
(* ComplianceChecker of web-compliance/compliance_checker.py and of        *)
(* "final project"/src/compliance_checker.py.                              *)
(*                                                                         *)
(* Python values are tagged records: None is Null, a number n is Num(n),   *)
(* a string is Str(s) with s the sequence of its characters, a bool is     *)
(* Bool(b).  A dict is the sequence of its items [k, v] in insertion       *)
(* order, k the character sequence of the key.  Ratios (Uo, uniformity)    *)
(* are carried in hundredths, so 0.6 is 60: comparison and subtraction     *)
(* commute with the scaling.                                               *)
(***************************************************************************)
EXTENDS Integers, Sequences, FiniteSets, TLC

VARIABLES
    variant,              \* which checker: "web" or "final"
    standards_data,       \* self.standards_data
    parameter_mapping,    \* self.parameter_mapping["parameters"]
    report_data,          \* argument of check_compliance
    results,              \* the results mapping check_compliance builds
    room_index,           \* position of the room loop (1-based)
    pc,                   \* position in the operation under way
    utilisation_profile,  \* argument of find_matching_standard
    room,                 \* the room record handed to the evaluator
    standard,             \* a requirement record: the resolver's result, the evaluator's argument
    lighting_setup,       \* measurement source handed to the evaluator
    check_result,         \* the evaluator's check_result
    checks,               \* argument of _determine_overall_compliance / _generate_summary
    now,                  \* the clock datetime.now() reads
    other,                \* the frame of a second check_compliance invocation, while suspended
    raw_key,              \* the key handed to normalize_key
    normalized_key,       \* what normalize_key returned
    record,               \* argument of normalize_record and validate_lighting_values
    normalized,           \* what normalize_record returned
    file_data,            \* what json.load read from the standards file, or the exception
    find_data,            \* argument data of _find_parameter_value
    find_type,            \* argument parameter_type of _find_parameter_value
    find_result           \* what _find_parameter_value returned

vars == <<variant, standards_data, parameter_mapping, report_data, results, room_index,
          pc, utilisation_profile, room, standard, lighting_setup, check_result, checks,
          now, other, raw_key, normalized_key, record, normalized, file_data, find_data, find_type, find_result>>

----------------------------------------------------------------------------
(* Python values *)

Null == [null |-> TRUE]
Num(n) == [num |-> n]
Str(s) == [str |-> s]
Bool(b) == [bool |-> b]
\* placeholder of a variable the running operation does not use
Idle == [idle |-> TRUE]

IsNull(v) == DOMAIN v = {"null"}
IsNum(v) == DOMAIN v = {"num"}
IsStr(v) == DOMAIN v = {"str"}

\* bool(v)
Truthy(v) ==
    CASE IsNull(v) -> FALSE
      [] IsNum(v) -> v.num # 0
      [] IsStr(v) -> v.str # <<>>
      [] DOMAIN v = {"dict"} -> v.dict # <<>>
      [] DOMAIN v = {"list"} -> v.list # <<>>
      [] DOMAIN v = {"bool"} -> v.bool
      [] OTHER -> TRUE

\* a or b
PyOr(a, b) == IF Truthy(a) THEN a ELSE b

List(xs) == [list |-> xs]

----------------------------------------------------------------------------
(* Strings *)

LowerChar(c) ==
    CASE c = "A" -> "a" [] c = "B" -> "b" [] c = "C" -> "c" [] c = "D" -> "d"
      [] c = "E" -> "e" [] c = "F" -> "f" [] c = "G" -> "g" [] c = "H" -> "h"
      [] c = "I" -> "i" [] c = "J" -> "j" [] c = "K" -> "k" [] c = "L" -> "l"
      [] c = "M" -> "m" [] c = "N" -> "n" [] c = "O" -> "o" [] c = "P" -> "p"
      [] c = "Q" -> "q" [] c = "R" -> "r" [] c = "S" -> "s" [] c = "T" -> "t"
      [] c = "U" -> "u" [] c = "V" -> "v" [] c = "W" -> "w" [] c = "X" -> "x"
      [] c = "Y" -> "y" [] c = "Z" -> "z"
      [] c = "Φ" -> "φ" [] c = "Η" -> "η" [] OTHER -> c

\* s.lower()
lower(s) == [i \in 1..Len(s) |-> LowerChar(s[i])]

\* sub in s
Contains(sub, s) ==
    \E i \in 0..(Len(s) - Len(sub)) : SubSeq(s, i + 1, i + Len(sub)) = sub

\* s.split(): the whitespace-delimited tokens of s
RECURSIVE SplitAcc(_, _, _)
SplitAcc(s, cur, acc) ==
    IF s = <<>> THEN (IF cur = <<>> THEN acc ELSE Append(acc, cur))
    ELSE IF Head(s) = " "
         THEN SplitAcc(Tail(s), <<>>, IF cur = <<>> THEN acc ELSE Append(acc, cur))
         ELSE SplitAcc(Tail(s), Append(cur, Head(s)), acc)

split(s) == SplitAcc(s, <<>>, <<>>)

\* any(keyword in s for keyword in keywords)
AnyIn(keywords, s) == \E i \in 1..Len(keywords) : Contains(keywords[i], s)

(* String literals of the program *)
kw_factory == <<"f", "a", "c", "t", "o", "r", "y">>
kw_industrial == <<"i", "n", "d", "u", "s", "t", "r", "i", "a", "l">>
kw_warehouse == <<"w", "a", "r", "e", "h", "o", "u", "s", "e">>
kw_manufacturing == <<"m", "a", "n", "u", "f", "a", "c", "t", "u", "r", "i", "n", "g">>
kw_production == <<"p", "r", "o", "d", "u", "c", "t", "i", "o", "n">>
kw_workshop == <<"w", "o", "r", "k", "s", "h", "o", "p">>
kw_general == <<"g", "e", "n", "e", "r", "a", "l">>
kw_work == <<"w", "o", "r", "k">>
kw_office == <<"o", "f", "f", "i", "c", "e">>
kw_corridor == <<"c", "o", "r", "r", "i", "d", "o", "r">>
kw_hallway == <<"h", "a", "l", "l", "w", "a", "y">>
kw_storage == <<"s", "t", "o", "r", "a", "g", "e">>
kw_store == <<"s", "t", "o", "r", "e">>
kw_building == <<"b", "u", "i", "l", "d", "i", "n", "g">>
kw_room == <<"r", "o", "o", "m">>
kw_working_place == <<"w", "o", "r", "k", "i", "n", "g", " ", "p", "l", "a", "c", "e">>
k_task_or_activity == <<"t", "a", "s", "k", "_", "o", "r", "_", "a", "c", "t", "i", "v", "i", "t", "y">>
k_category == <<"c", "a", "t", "e", "g", "o", "r", "y">>
k_ref_no == <<"r", "e", "f", "_", "n", "o">>
k_Em_r_lx == <<"E", "m", "_", "r", "_", "l", "x">>
k_Em_u_lx == <<"E", "m", "_", "u", "_", "l", "x">>
k_Uo == <<"U", "o">>
k_Ra == <<"R", "a">>
k_RUGL == <<"R", "U", "G", "L">>
k_Ez_lx == <<"E", "z", "_", "l", "x">>
k_Em_wall_lx == <<"E", "m", "_", "w", "a", "l", "l", "_", "l", "x">>
k_Em_ceiling_lx == <<"E", "m", "_", "c", "e", "i", "l", "i", "n", "g", "_", "l", "x">>
k_name == <<"n", "a", "m", "e">>
k_utilisation_profile == <<"u", "t", "i", "l", "i", "s", "a", "t", "i", "o", "n", "_", "p", "r", "o", "f", "i", "l", "e">>
k_scene_name == <<"s", "c", "e", "n", "e", "_", "n", "a", "m", "e">>
k_average_lux == <<"a", "v", "e", "r", "a", "g", "e", "_", "l", "u", "x">>
k_uniformity == <<"u", "n", "i", "f", "o", "r", "m", "i", "t", "y">>
k_color_rendering_ra == <<"c", "o", "l", "o", "r", "_", "r", "e", "n", "d", "e", "r", "i", "n", "g", "_", "r", "a">>
k_project_name == <<"p", "r", "o", "j", "e", "c", "t", "_", "n", "a", "m", "e">>
p_General_assembly_work == <<"G", "e", "n", "e", "r", "a", "l", " ", "a", "s", "s", "e", "m", "b", "l", "y", " ", "w", "o", "r", "k">>
p_Office_work == <<"O", "f", "f", "i", "c", "e", " ", "w", "o", "r", "k">>
p_Corridors == <<"T", "r", "a", "f", "f", "i", "c", " ", "z", "o", "n", "e", "s", " ", "i", "n", "s", "i", "d", "e", " ", "b", "u", "i", "l", "d", "i", "n", "g", "s", " ", "-", " ", "C", "o", "r", "r", "i", "d", "o", "r", "s">>
p_Storage_areas == <<"S", "t", "o", "r", "a", "g", "e", " ", "a", "r", "e", "a", "s">>
p_General_lighting == <<"G", "e", "n", "e", "r", "a", "l", " ", "l", "i", "g", "h", "t", "i", "n", "g">>
p_Industrial_activities == <<"I", "n", "d", "u", "s", "t", "r", "i", "a", "l", " ", "a", "c", "t", "i", "v", "i", "t", "i", "e", "s", " ", "a", "n", "d", " ", "c", "r", "a", "f", "t", "s">>
p_Offices == <<"O", "f", "f", "i", "c", "e", "s">>
p_Traffic_zones == <<"T", "r", "a", "f", "f", "i", "c", " ", "z", "o", "n", "e", "s", " ", "i", "n", "s", "i", "d", "e", " ", "b", "u", "i", "l", "d", "i", "n", "g", "s">>
p_Store_rooms == <<"G", "e", "n", "e", "r", "a", "l", " ", "a", "r", "e", "a", "s", " ", "i", "n", "s", "i", "d", "e", " ", "b", "u", "i", "l", "d", "i", "n", "g", "s", " ", "-", " ", "S", "t", "o", "r", "e", " ", "r", "o", "o", "m", "s", ",", " ", "c", "o", "l", "d", " ", "s", "t", "o", "r", "e", "s">>
p_General_areas == <<"G", "e", "n", "e", "r", "a", "l", " ", "a", "r", "e", "a", "s", " ", "i", "n", "s", "i", "d", "e", " ", "b", "u", "i", "l", "d", "i", "n", "g", "s">>
s_Unknown == <<"U", "n", "k", "n", "o", "w", "n">>
s_No_room_data == <<"N", "o", " ", "r", "o", "o", "m", " ", "d", "a", "t", "a", " ", "f", "o", "u", "n", "d", " ", "i", "n", " ", "r", "e", "p", "o", "r", "t">>
k_standards == <<"s", "t", "a", "n", "d", "a", "r", "d", "s">>
k_metadata == <<"m", "e", "t", "a", "d", "a", "t", "a">>
k_lighting_setup == <<"l", "i", "g", "h", "t", "i", "n", "g", "_", "s", "e", "t", "u", "p">>
k_rooms == <<"r", "o", "o", "m", "s">>
k_scenes == <<"s", "c", "e", "n", "e", "s">>

(* Strings of the catalogs and reports the model draws its inputs from *)
t_Home_office_work == <<"H", "o", "m", "e", " ", "o", "f", "f", "i", "c", "e", " ", "w", "o", "r", "k">>
t_Factory_floor == <<"F", "a", "c", "t", "o", "r", "y", " ", "f", "l", "o", "o", "r">>
t_General_tasks == <<"G", "e", "n", "e", "r", "a", "l", " ", "t", "a", "s", "k", "s">>
t_Stairs == <<"S", "t", "a", "i", "r", "s">>
u_OFFICE_WORK == <<"O", "F", "F", "I", "C", "E", " ", "W", "O", "R", "K">>
u_Factory_hall == <<"F", "a", "c", "t", "o", "r", "y", " ", "h", "a", "l", "l">>
u_Basket_weaving == <<"B", "a", "s", "k", "e", "t", " ", "w", "e", "a", "v", "i", "n", "g">>
u_Lift_stairs == <<"L", "i", "f", "t", " ", "s", "t", "a", "i", "r", "s">>
k_parameters == <<"p", "a", "r", "a", "m", "e", "t", "e", "r", "s">>
k_places == <<"p", "l", "a", "c", "e", "s">>
a_CRI == <<"C", "R", "I">>
a_Ra == <<"R", "a">>
d_cri == <<"c", "r", "i">>
d_CRI_value == <<"C", "R", "I", " ", "v", "a", "l", "u", "e">>
s_Room1 == <<"R", "o", "o", "m", "1">>
s_Factory_Hall_A == <<"F", "a", "c", "t", "o", "r", "y", " ", "H", "a", "l", "l", " ", "A">>
s_Storage == <<"S", "t", "o", "r", "a", "g", "e">>
s_Scene_1 == <<"S", "c", "e", "n", "e", " ", "1">>
s_Factory_X == <<"F", "a", "c", "t", "o", "r", "y", " ", "X">>
s_Working_place == <<"W", "o", "r", "k", "i", "n", "g", " ", "p", "l", "a", "c", "e">>

----------------------------------------------------------------------------
(* Dicts: Dict(items), items the sequence of [k, v] in insertion order *)

Dict(items) == [dict |-> items]
IsDict(v) == DOMAIN v = {"dict"}
EmptyDict == Dict(<<>>)

\* k in d
HasKey(d, k) == \E i \in 1..Len(d.dict) : d.dict[i].k = k

\* d[k] for a key that is present
Item(d, k) == d.dict[CHOOSE i \in 1..Len(d.dict) : d.dict[i].k = k].v

\* d.get(k, default);  d.get(k) is Get(d, k, Null)
Get(d, k, default) == IF HasKey(d, k) THEN Item(d, k) ELSE default

----------------------------------------------------------------------------
(* Profile resolver: find_matching_standard *)

lighting_fields ==
    <<k_Em_r_lx, k_Em_u_lx, k_Uo, k_Ra, k_RUGL, k_Ez_lx, k_Em_wall_lx, k_Em_ceiling_lx>>

has_lighting_requirements(std) ==
    \E i \in 1..Len(lighting_fields) :
        LET value == Get(std, lighting_fields[i], Null)
        IN  value # Null /\ value # Num(0)

has_uniformity_requirement(std) ==
    LET uo_value == Get(std, k_Uo, Null)
    IN  uo_value # Null /\ uo_value # Num(0)

\* (standard.get(key, '') or '').lower()
LowerField(std, key) == lower(PyOr(Get(std, key, Str(<<>>)), Str(<<>>)).str)

industrial_keywords == <<kw_factory, kw_industrial, kw_warehouse, kw_manufacturing>>
industrial_task_keywords == <<kw_industrial, kw_factory, kw_warehouse, kw_manufacturing>>
general_keywords == <<kw_general, kw_work, kw_office>>

\* mutant: the chain ends without the final fallback
FinalFallbackLoop_Dropped(stds, i) == Null

\* Final fallback: any standard with uniformity requirements
RECURSIVE FinalFallbackLoop(_, _)
FinalFallbackLoop(stds, i) ==
    IF i > Len(stds) THEN Null
    ELSE IF has_lighting_requirements(stds[i]) /\ has_uniformity_requirement(stds[i])
         THEN stds[i]
         ELSE FinalFallbackLoop(stds, i + 1)

\* General work standards with uniformity
RECURSIVE GeneralLoop(_, _)
GeneralLoop(stds, i) ==
    IF i > Len(stds) THEN FinalFallbackLoop(stds, 1)
    ELSE IF /\ AnyIn(general_keywords, LowerField(stds[i], k_task_or_activity))
            /\ has_lighting_requirements(stds[i])
            /\ has_uniformity_requirement(stds[i])
         THEN stds[i]
         ELSE GeneralLoop(stds, i + 1)

\* Industrial work standards for factory/industrial profiles
RECURSIVE IndustrialLoop(_, _)
IndustrialLoop(stds, i) ==
    IF i > Len(stds) THEN GeneralLoop(stds, 1)
    ELSE IF /\ AnyIn(industrial_task_keywords, LowerField(stds[i], k_task_or_activity))
            /\ has_lighting_requirements(stds[i])
         THEN stds[i]
         ELSE IndustrialLoop(stds, i + 1)

\* mutant: the industrial search runs whatever the profile says
IndustrialStep_Unguarded(stds, utilisation_lower) == IndustrialLoop(stds, 1)

IndustrialStep(stds, utilisation_lower) ==
    IF AnyIn(industrial_keywords, utilisation_lower)
    THEN IndustrialLoop(stds, 1)
    ELSE GeneralLoop(stds, 1)

\* the condition of the partial match
PartialMatch(std, utilisation_lower) ==
    LET task_activity == LowerField(std, k_task_or_activity)
        category == LowerField(std, k_category)
    IN  \/ Contains(utilisation_lower, task_activity)
        \/ Contains(utilisation_lower, category)
        \/ AnyIn(split(utilisation_lower), task_activity)

RECURSIVE PartialLoop(_, _, _)
PartialLoop(stds, i, utilisation_lower) ==
    IF i > Len(stds) THEN IndustrialStep(stds, utilisation_lower)
    ELSE IF /\ PartialMatch(stds[i], utilisation_lower)
            /\ has_lighting_requirements(stds[i])
            /\ has_uniformity_requirement(stds[i])
         THEN stds[i]
         ELSE PartialLoop(stds, i + 1, utilisation_lower)

\* mutant: an exact match is returned whether or not it has requirements
RECURSIVE ExactLoop_AnyRecord(_, _, _)
ExactLoop_AnyRecord(stds, i, utilisation_lower) ==
    IF i > Len(stds) THEN PartialLoop(stds, 1, utilisation_lower)
    ELSE IF LowerField(stds[i], k_task_or_activity) = utilisation_lower
         THEN stds[i]
         ELSE ExactLoop_AnyRecord(stds, i + 1, utilisation_lower)

\* Exact matches without uniformity
RECURSIVE ExactLoop(_, _, _)
ExactLoop(stds, i, utilisation_lower) ==
    IF i > Len(stds) THEN PartialLoop(stds, 1, utilisation_lower)
    ELSE IF /\ LowerField(stds[i], k_task_or_activity) = utilisation_lower
            /\ has_lighting_requirements(stds[i])
         THEN stds[i]
         ELSE ExactLoop(stds, i + 1, utilisation_lower)

\* mutant: the first pass does not ask for a uniformity requirement
ExactUniformityLoop_AnyExact(stds, i, utilisation_lower) == ExactLoop(stds, i, utilisation_lower)

\* Exact matches with uniformity requirements
RECURSIVE ExactUniformityLoop(_, _, _)
ExactUniformityLoop(stds, i, utilisation_lower) ==
    IF i > Len(stds) THEN ExactLoop(stds, 1, utilisation_lower)
    ELSE IF /\ LowerField(stds[i], k_task_or_activity) = utilisation_lower
            /\ has_lighting_requirements(stds[i])
            /\ has_uniformity_requirement(stds[i])
         THEN stds[i]
         ELSE ExactUniformityLoop(stds, i + 1, utilisation_lower)

IsList(v) == DOMAIN v = {"list"}

\* a for loop can run over v: a list, a string (its characters) or a
\* mapping (its keys)
Iterable(v) == IsList(v) \/ IsStr(v) \/ IsDict(v)

\* the records before the first element of stds that is no mapping
RecordsBefore(stds) ==
    SubSeq(stds, 1, (CHOOSE i \in 1..Len(stds) :
                        ~IsDict(stds[i]) /\ \A j \in 1..(i - 1) : IsDict(stds[j])) - 1)

\* the first loop on a list holding an element that is no mapping: the
\* loop returns a record it accepts before that element, or standard.get
\* raises at that element
FirstLoopBefore(stds, utilisation_lower) ==
    LET r == ExactUniformityLoop(RecordsBefore(stds), 1, utilisation_lower)
    IN  IF /\ IsDict(r)
           /\ LowerField(r, k_task_or_activity) = utilisation_lower
           /\ has_lighting_requirements(r) /\ has_uniformity_requirement(r)
        THEN r
        ELSE [raised |-> "AttributeError"]

\* find_matching_standard(utilisation_profile) on self.standards_data = sd
\* find_matching_standard(utilisation_profile) on self.standards_data = sd
find_matching_standard(sd, profile) ==
    IF ~Truthy(sd) \/ ~HasKey(sd, k_standards)
    THEN Null
    ELSE IF ~IsStr(profile)
         THEN [raised |-> "AttributeError"]
         ELSE IF ~Iterable(Item(sd, k_standards))
              THEN [raised |-> "TypeError"]
              ELSE IF ~IsList(Item(sd, k_standards))
                   THEN (IF Truthy(Item(sd, k_standards))
                         THEN [raised |-> "AttributeError"]
                         ELSE ExactUniformityLoop(<<>>, 1, lower(profile.str)))
                   ELSE IF \E i \in 1..Len(Item(sd, k_standards).list) :
                               ~IsDict(Item(sd, k_standards).list[i])
                        THEN FirstLoopBefore(Item(sd, k_standards).list, lower(profile.str))
                        ELSE ExactUniformityLoop(Item(sd, k_standards).list, 1,
                                                 lower(profile.str))


----------------------------------------------------------------------------
(* Compliance evaluator: _find_parameter_value, _perform_room_compliance_check *)

NotFound == [found |-> FALSE, source |-> Null, value |-> Null]
Found(key, val) == [found |-> TRUE, source |-> Str(key), value |-> val]

\* positions of the keys of data, with a value that is not None, that satisfy Match
FirstKey(data, S) == data.dict[CHOOSE j \in S : \A l \in S : j <= l]

\* the alias loop of the web-compliance checker: exact, case-insensitive, partial
RECURSIVE AliasLoopWeb(_, _, _)
AliasLoopWeb(data, aliases, i) ==
    IF i > Len(aliases) THEN NotFound
    ELSE LET alias == aliases[i].str
             nocase == {j \in 1..Len(data.dict) :
                           /\ lower(data.dict[j].k) = lower(alias)
                           /\ data.dict[j].v # Null}
             partial == {j \in 1..Len(data.dict) :
                           /\ Contains(lower(alias), lower(data.dict[j].k))
                           /\ data.dict[j].v # Null}
         IN  IF HasKey(data, alias) /\ Item(data, alias) # Null
             THEN Found(alias, Item(data, alias))
             ELSE IF nocase # {}
                  THEN Found(FirstKey(data, nocase).k, FirstKey(data, nocase).v)
                  ELSE IF partial # {}
                       THEN Found(FirstKey(data, partial).k, FirstKey(data, partial).v)
                       ELSE AliasLoopWeb(data, aliases, i + 1)

\* the alias loop of the final-project checker: exact, case-insensitive
RECURSIVE AliasLoopFinal(_, _, _)
AliasLoopFinal(data, aliases, i) ==
    IF i > Len(aliases) THEN NotFound
    ELSE LET alias == aliases[i].str
             nocase == {j \in 1..Len(data.dict) :
                           /\ lower(data.dict[j].k) = lower(alias)
                           /\ data.dict[j].v # Null}
         IN  IF HasKey(data, alias) /\ Item(data, alias) # Null
             THEN Found(alias, Item(data, alias))
             ELSE IF nocase # {}
                  THEN Found(FirstKey(data, nocase).k, FirstKey(data, nocase).v)
                  ELSE AliasLoopFinal(data, aliases, i + 1)

\* self.parameter_mapping['parameters'].get(parameter_type, [])
parameter_aliases(pm, parameter_type) ==
    Get(Item(pm, k_parameters), parameter_type, List(<<>>)).list

\* _find_parameter_value(data, parameter_type); data is a dict
find_parameter_value(v, pm, data, parameter_type) ==
    IF ~Truthy(pm) \/ ~HasKey(pm, k_parameters)
    THEN NotFound
    ELSE IF v = "web"
         THEN IF HasKey(data, parameter_type) /\ Item(data, parameter_type) # Null
              THEN Found(parameter_type, Item(data, parameter_type))
              ELSE AliasLoopWeb(data, parameter_aliases(pm, parameter_type), 1)
         ELSE AliasLoopFinal(data, parameter_aliases(pm, parameter_type), 1)

\* an exception leaves the operation
Raised(what) == [raised |-> what]
IsRaised(x) == DOMAIN x = {"raised"}

\* a parameter with no entry in check_result['checks']
NoEntry == [absent |-> TRUE]

\* the measured value of average_lux / uniformity
measured_value(v, pm, data, key) ==
    IF v = "web"
    THEN LET r == find_parameter_value(v, pm, data, key)
         IN  IF r.found THEN r.value ELSE Get(data, key, Num(0))
    ELSE Get(data, key, Num(0))

\* mutant: the upper illuminance is not consulted
required_lux_NoUpper(std) == PyOr(Get(std, k_Em_r_lx, Num(0)), Num(0))

required_lux(std) == PyOr(PyOr(Get(std, k_Em_r_lx, Num(0)), Get(std, k_Em_u_lx, Num(0))), Num(0))
required_uniformity(std) == PyOr(Get(std, k_Uo, Num(0)), Num(0))
required_ra(std) == PyOr(Get(std, k_Ra, Num(0)), Num(0))

\* mutant: the margin is actual - required whatever the outcome
CheckEntry_SignedMargin(required, actual) ==
    [required |-> required,
     actual |-> actual,
     compliant |-> Bool(actual.num >= required.num),
     margin |-> Num(actual.num - required.num)]

\* the entry of a mandatory or found parameter
CheckEntry(required, actual) ==
    LET compliance == actual.num >= required.num
    IN  [required |-> required,
         actual |-> actual,
         compliant |-> Bool(compliance),
         margin |-> IF compliance THEN Num(actual.num - required.num)
                                  ELSE Num(required.num - actual.num)]

\* check_result as first built, before any check
NewCheckResult(rm, std, data) ==
    IF ~IsDict(rm) \/ ~IsDict(std) \/ ~IsDict(data)
    THEN Raised("AttributeError")
    ELSE [room |-> Get(rm, k_name, Str(s_Unknown)),
          utilisation_profile |-> Get(rm, k_utilisation_profile, Str(<<>>)),
          standard |-> [ref_no |-> Get(std, k_ref_no, Str(<<>>)),
                        category |-> Get(std, k_category, Str(<<>>)),
                        task_or_activity |-> Get(std, k_task_or_activity, Str(<<>>))],
          checks |-> [lux |-> NoEntry, uniformity |-> NoEntry, ra |-> NoEntry],
          status |-> "PASS"]

\* Check lux compliance
LuxCheck(cr, v, pm, std, data) ==
    LET average_lux == measured_value(v, pm, data, k_average_lux)
        required == required_lux(std)
    IN  IF required.num > 0
        THEN IF ~IsNum(average_lux)
             THEN Raised("TypeError")
             ELSE [cr EXCEPT !.checks.lux = CheckEntry(required, average_lux),
                             !.status = IF average_lux.num >= required.num THEN @ ELSE "FAIL"]
        ELSE cr

\* Check uniformity compliance
UniformityCheck(cr, v, pm, std, data) ==
    LET uniformity == measured_value(v, pm, data, k_uniformity)
        required == required_uniformity(std)
    IN  IF required.num > 0
        THEN IF ~IsNum(uniformity)
             THEN Raised("TypeError")
             ELSE [cr EXCEPT !.checks.uniformity = CheckEntry(required, uniformity),
                             !.status = IF uniformity.num >= required.num THEN @ ELSE "FAIL"]
        ELSE cr

\* mutant: a failed Ra check fails the room
RaCheck_Blocking(cr, v, pm, std, data) ==
    LET ra == find_parameter_value(v, pm, data, k_color_rendering_ra)
        required == required_ra(std)
    IN  IF required.num > 0 /\ ra.found /\ IsNum(ra.value)
        THEN [cr EXCEPT !.checks.ra =
                 [required |-> required,
                  actual |-> ra.value,
                  compliant |-> CheckEntry(required, ra.value).compliant,
                  margin |-> CheckEntry(required, ra.value).margin,
                  found |-> TRUE,
                  source |-> ra.source],
                        !.status = IF ra.value.num >= required.num THEN @ ELSE "FAIL"]
        ELSE cr

\* Check Ra compliance (informational only)
RaCheck(cr, v, pm, std, data) ==
    LET ra == find_parameter_value(v, pm, data, k_color_rendering_ra)
        required == required_ra(std)
    IN  IF required.num > 0
        THEN IF ra.found
             THEN IF ~IsNum(ra.value)
                  THEN Raised("TypeError")
                  ELSE [cr EXCEPT !.checks.ra =
                           [required |-> required,
                            actual |-> ra.value,
                            compliant |-> CheckEntry(required, ra.value).compliant,
                            margin |-> CheckEntry(required, ra.value).margin,
                            found |-> TRUE,
                            source |-> ra.source]]
             ELSE IF ~Truthy(pm) \/ ~HasKey(pm, k_parameters)
                  THEN Raised("KeyError")
                  ELSE [cr EXCEPT !.checks.ra =
                           [required |-> required,
                            actual |-> Null,
                            compliant |-> Null,
                            margin |-> Null,
                            found |-> FALSE,
                            source |-> Null]]
        ELSE cr

\* the checks in the order of the code; an exception ends the evaluation
LuxStage(cr, v, pm, std, data) ==
    IF IsRaised(cr) THEN cr ELSE LuxCheck(cr, v, pm, std, data)
UniformityStage(cr, v, pm, std, data) ==
    IF IsRaised(cr) THEN cr ELSE UniformityCheck(cr, v, pm, std, data)
RaStage(cr, v, pm, std, data) ==
    IF IsRaised(cr) THEN cr ELSE RaCheck(cr, v, pm, std, data)

\* _perform_room_compliance_check(room, standard, lighting_setup)
perform_room_compliance_check(v, pm, rm, std, data) ==
    RaStage(UniformityStage(LuxStage(NewCheckResult(rm, std, data), v, pm, std, data),
                            v, pm, std, data),
            v, pm, std, data)

----------------------------------------------------------------------------
(* Report aggregator: check_compliance, _determine_overall_compliance, _generate_summary *)

\* mutant: NO_STANDARD_FOUND is looked for before FAIL
determine_overall_compliance_PartialFirst(cs) ==
    IF cs = <<>> THEN "NO_CHECKS"
    ELSE IF \E i \in 1..Len(cs) : cs[i].status = "NO_STANDARD_FOUND" THEN "PARTIAL"
    ELSE IF \E i \in 1..Len(cs) : cs[i].status = "FAIL" THEN "FAIL"
    ELSE IF \A i \in 1..Len(cs) : cs[i].status = "PASS" THEN "PASS"
    ELSE "UNKNOWN"

\* _determine_overall_compliance(checks)
determine_overall_compliance(cs) ==
    IF cs = <<>> THEN "NO_CHECKS"
    ELSE LET statuses == [i \in 1..Len(cs) |-> cs[i].status]
         IN  IF \E i \in 1..Len(statuses) : statuses[i] = "FAIL" THEN "FAIL"
             ELSE IF \E i \in 1..Len(statuses) : statuses[i] = "NO_STANDARD_FOUND" THEN "PARTIAL"
             ELSE IF \A i \in 1..Len(statuses) : statuses[i] = "PASS" THEN "PASS"
             ELSE "UNKNOWN"

\* sum(1 for check in checks if check['status'] == status)
CountStatus(cs, status) == Cardinality({i \in 1..Len(cs) : cs[i].status = status})

\* a / b * 100 as the exact fraction num / den
Percent(a, b) == [num |-> a * 100, den |-> b]

\* mutant: the rooms without a standard are left out of the total
generate_summary_CheckedOnly(cs) ==
    [total_rooms |-> CountStatus(cs, "PASS") + CountStatus(cs, "FAIL"),
     passed |-> CountStatus(cs, "PASS"),
     failed |-> CountStatus(cs, "FAIL"),
     no_standard_found |-> CountStatus(cs, "NO_STANDARD_FOUND"),
     pass_rate |-> IF CountStatus(cs, "PASS") + CountStatus(cs, "FAIL") > 0
                   THEN Percent(CountStatus(cs, "PASS"),
                                CountStatus(cs, "PASS") + CountStatus(cs, "FAIL"))
                   ELSE Percent(0, 1)]

\* _generate_summary(checks)
generate_summary(cs) ==
    LET total_checks == Len(cs)
        passed == CountStatus(cs, "PASS")
        failed == CountStatus(cs, "FAIL")
        no_standard == CountStatus(cs, "NO_STANDARD_FOUND")
    IN  [total_rooms |-> total_checks,
         passed |-> passed,
         failed |-> failed,
         no_standard_found |-> no_standard,
         pass_rate |-> IF total_checks > 0 THEN Percent(passed, total_checks) ELSE Percent(0, 1)]

scene_keywords_final == <<kw_factory, kw_industrial, kw_warehouse, kw_manufacturing>>
scene_keywords_web == <<kw_factory, kw_industrial, kw_warehouse, kw_manufacturing, kw_production>>
room_keywords_web ==
    <<kw_factory, kw_industrial, kw_warehouse, kw_manufacturing, kw_production, kw_workshop>>
project_keywords_web == <<kw_factory, kw_industrial, kw_warehouse>>

\* x.get(key, '').lower(): raises unless x is a dict and the value a string
GetLower(x, key) ==
    IF ~IsDict(x) THEN Raised("AttributeError")
    ELSE IF ~IsStr(Get(x, key, Str(<<>>))) THEN Raised("AttributeError")
    ELSE Str(lower(Get(x, key, Str(<<>>)).str))

\* the profile taken from the scenes, final-project checker: always scenes[0]
SceneProfileFinal(scenes) ==
    LET scene_name == GetLower(scenes[1], k_scene_name)
    IN  IF IsRaised(scene_name) THEN scene_name
        ELSE IF AnyIn(scene_keywords_final, scene_name.str)
             THEN Str(p_General_assembly_work)
             ELSE Get(scenes[1], k_utilisation_profile, Str(<<>>))

\* the profile taken from the scenes, web-compliance checker: the scene at the
\* room's position, else the first; i is the room's position (1-based)
SceneProfileWeb(scenes, i) ==
    LET scene_data == IF i <= Len(scenes) THEN scenes[i] ELSE scenes[1]
        scene_name == GetLower(scene_data, k_scene_name)
        scene_profile == IF IsDict(scene_data)
                         THEN Get(scene_data, k_utilisation_profile, Str(<<>>))
                         ELSE Raised("AttributeError")
    IN  IF ~Truthy(scene_data) THEN Str(<<>>)
        ELSE IF IsRaised(scene_name) THEN scene_name
        ELSE IF AnyIn(scene_keywords_web, scene_name.str)
             THEN Str(p_Industrial_activities)
        ELSE IF Truthy(scene_profile) THEN scene_profile
        ELSE IF Contains(kw_working_place, scene_name.str) \/ Contains(kw_work, scene_name.str)
             THEN Str(p_Industrial_activities)
        ELSE Str(<<>>)

\* (room.get('name', '') or '').lower()
RoomNameLower(rm) == lower(PyOr(Get(rm, k_name, Str(<<>>)), Str(<<>>)).str)

\* mutant: the factory keywords are tested before 'office'
NameProfileFinal_FactoryFirst(rm) ==
    LET room_name == RoomNameLower(rm)
    IN  IF \/ Contains(kw_factory, room_name)
           \/ Contains(kw_warehouse, room_name)
           \/ Contains(kw_industrial, room_name)
        THEN Str(p_General_assembly_work)
        ELSE IF Contains(kw_office, room_name) THEN Str(p_Office_work)
        ELSE IF Contains(kw_corridor, room_name) \/ Contains(kw_hallway, room_name)
             THEN Str(p_Corridors)
        ELSE IF Contains(kw_storage, room_name) THEN Str(p_Storage_areas)
        ELSE IF Contains(kw_building, room_name) \/ Contains(kw_room, room_name)
             THEN Str(p_General_assembly_work)
        ELSE Str(p_General_lighting)

\* the profile inferred from the room name, final-project checker
NameProfileFinal(rm) ==
    LET room_name == RoomNameLower(rm)
    IN  IF Contains(kw_office, room_name) THEN Str(p_Office_work)
        ELSE IF \/ Contains(kw_factory, room_name)
                \/ Contains(kw_warehouse, room_name)
                \/ Contains(kw_industrial, room_name)
             THEN Str(p_General_assembly_work)
        ELSE IF Contains(kw_corridor, room_name) \/ Contains(kw_hallway, room_name)
             THEN Str(p_Corridors)
        ELSE IF Contains(kw_storage, room_name) THEN Str(p_Storage_areas)
        ELSE IF Contains(kw_building, room_name) \/ Contains(kw_room, room_name)
             THEN Str(p_General_assembly_work)
        ELSE Str(p_General_lighting)

\* the profile inferred from the room name, web-compliance checker
NameProfileWeb(rm, report) ==
    LET room_name_lower == RoomNameLower(rm)
        project_name == GetLower(Get(report, k_metadata, EmptyDict), k_project_name)
    IN  IF AnyIn(room_keywords_web, room_name_lower) THEN Str(p_Industrial_activities)
        ELSE IF Contains(kw_office, room_name_lower) THEN Str(p_Offices)
        ELSE IF Contains(kw_corridor, room_name_lower) \/ Contains(kw_hallway, room_name_lower)
             THEN Str(p_Traffic_zones)
        ELSE IF Contains(kw_storage, room_name_lower) \/ Contains(kw_store, room_name_lower)
             THEN Str(p_Store_rooms)
        ELSE IF Contains(kw_building, room_name_lower) \/ Contains(kw_room, room_name_lower)
             THEN IF IsRaised(project_name) THEN project_name
                  ELSE IF AnyIn(project_keywords_web, project_name.str)
                       THEN Str(p_Industrial_activities)
                       ELSE Str(p_General_areas)
        ELSE Str(p_General_areas)

\* mutant: the scenes are consulted before the room's declared profile
AfterSceneStep_ScenesFirst(v, declared, scenes, i) ==
    IF Truthy(scenes)
    THEN PyOr(IF v = "web" THEN SceneProfileWeb(scenes.list, i)
                           ELSE SceneProfileFinal(scenes.list),
              declared)
    ELSE declared

\* the profile after the scene step: the declared one when truthy
AfterSceneStep(v, declared, scenes, i) ==
    IF Truthy(declared) THEN declared
    ELSE IF Truthy(scenes)
         THEN IF v = "web" THEN SceneProfileWeb(scenes.list, i)
                           ELSE SceneProfileFinal(scenes.list)
         ELSE declared

\* mutant: no inference from the room name
AfterNameStep_NoInference(v, profile, rm, report) == profile

\* the profile after the room-name step
AfterNameStep(v, profile, rm, report) ==
    IF IsRaised(profile) \/ Truthy(profile) THEN profile
    ELSE IF v = "web" THEN NameProfileWeb(rm, report) ELSE NameProfileFinal(rm)

\* the utilisation profile check_compliance settles on for the room at position i
resolved_profile(v, report, i) ==
    LET rooms == Get(report, k_rooms, List(<<>>)).list
        scenes == Get(report, k_scenes, List(<<>>))
        declared == Get(rooms[i], k_utilisation_profile, Str(<<>>))
    IN  IF ~IsDict(rooms[i]) THEN Raised("AttributeError")
        ELSE AfterNameStep(v, AfterSceneStep(v, declared, scenes, i), rooms[i], report)

\* rooms.index(room): the first position holding an equal record
index(xs, x) == CHOOSE j \in 1..Len(xs) : xs[j] = x /\ \A l \in 1..(j - 1) : xs[l] # x

\* the measurement source of the room at position i
lighting_data(report, i) ==
    LET rooms == Get(report, k_rooms, List(<<>>)).list
        scenes == Get(report, k_scenes, List(<<>>))
        room_index0 == index(rooms, rooms[i])
        scene_data == IF Truthy(scenes)
                      THEN IF room_index0 <= Len(scenes.list)
                           THEN scenes.list[room_index0]
                           ELSE scenes.list[1]
                      ELSE Null
    IN  IF Truthy(scene_data) THEN scene_data ELSE Get(report, k_lighting_setup, EmptyDict)

----------------------------------------------------------------------------
(* Inputs *)

\* all sequences over S of length at most n
SeqsUpTo(S, n) == UNION {[1..k -> S] : k \in 0..n}

It(key, value) == [k |-> key, v |-> value]

MaxCatalog == 3

\* requirement records: (task_or_activity, lighting fields)
StandardPool ==
    { Dict(<<It(k_task_or_activity, Str(p_Office_work)), It(k_Em_r_lx, Num(500)), It(k_Uo, Num(60))>>),
      Dict(<<It(k_task_or_activity, Str(p_Office_work)), It(k_Em_r_lx, Num(300))>>),
      Dict(<<It(k_task_or_activity, Str(p_Office_work)), It(k_Em_r_lx, Null), It(k_Uo, Num(0))>>),
      Dict(<<It(k_task_or_activity, Str(t_Home_office_work)), It(k_Em_r_lx, Num(200)), It(k_Uo, Num(40))>>),
      Dict(<<It(k_task_or_activity, Str(t_Factory_floor)), It(k_Em_r_lx, Num(300))>>),
      Dict(<<It(k_task_or_activity, Str(t_General_tasks)), It(k_Uo, Num(40))>>),
      Dict(<<It(k_task_or_activity, Str(t_Stairs)), It(k_Em_r_lx, Num(100)), It(k_Uo, Num(40))>>),
      Dict(<<It(k_task_or_activity, Str(t_Stairs)), It(k_Ra, Num(80))>>),
      Dict(<<It(k_task_or_activity, Null), It(k_category, Str(p_Office_work)),
             It(k_Em_r_lx, Num(150)), It(k_Uo, Num(50))>>) }

ProfilePool ==
    { Str(p_Office_work), Str(u_OFFICE_WORK), Str(u_Factory_hall),
      Str(u_Basket_weaving), Str(u_Lift_stairs), Str(kw_work) }

Catalog(stds) == Dict(<<It(k_standards, List(stds))>>)

\* the standards list of a loaded catalog
StandardsOf(sd) == Item(sd, k_standards).list

----------------------------------------------------------------------------
(* The resolver called on its own *)

InitResolver ==
    /\ pc = "find_matching_standard"
    /\ standards_data \in {Catalog(s) : s \in SeqsUpTo(StandardPool, MaxCatalog)} \cup {EmptyDict}
    /\ utilisation_profile \in ProfilePool
    /\ standard = Idle
    /\ variant = "web" /\ parameter_mapping = Idle /\ report_data = Idle /\ results = Idle
    /\ room_index = 0 /\ lighting_setup = Idle /\ check_result = Idle
    /\ checks = Idle /\ room = Idle
    /\ now = 0 /\ other = Idle /\ raw_key = Idle /\ normalized_key = Idle /\ record = Idle /\ normalized = Idle
    /\ file_data = Idle /\ find_data = Idle /\ find_type = Idle /\ find_result = Idle

FindMatchingStandard ==
    /\ pc = "find_matching_standard"
    /\ standard' = find_matching_standard(standards_data, utilisation_profile)
    /\ pc' = "returned"
    /\ UNCHANGED <<variant, standards_data, parameter_mapping, report_data, results,
                   room_index, utilisation_profile, room, lighting_setup, check_result,
                   checks>>
    /\ UNCHANGED <<now, other, raw_key, normalized_key, record, normalized, file_data, find_data, find_type, find_result>>

NextResolver == FindMatchingStandard

SpecResolver == InitResolver /\ [][NextResolver]_vars

----------------------------------------------------------------------------
(* The rules of the fallback chain, stated per record *)

Min(S) == CHOOSE x \in S : \A y \in S : x <= y

NonZero(std, key) == Get(std, key, Null) \notin {Null, Num(0)}
HasLighting(std) == \E i \in 1..Len(lighting_fields) : NonZero(std, lighting_fields[i])
TaskOf(std) == LowerField(std, k_task_or_activity)
IsExact(std, p) == TaskOf(std) = lower(p.str)
IsPartial(std, p) ==
    LET words == split(lower(p.str))
    IN  \/ Contains(lower(p.str), TaskOf(std))
        \/ Contains(lower(p.str), LowerField(std, k_category))
        \/ \E j \in 1..Len(words) : Contains(words[j], TaskOf(std))
HasKeyword(s, kws) == \E w \in kws : Contains(w, s)
IndustrialWords == {kw_factory, kw_industrial, kw_warehouse, kw_manufacturing}
GenericWords == {kw_general, kw_work, kw_office}

Rule(n, std, p) ==
    CASE n = 1 -> NonZero(std, k_Uo) /\ HasLighting(std) /\ IsExact(std, p)
      [] n = 2 -> HasLighting(std) /\ IsExact(std, p)
      [] n = 3 -> NonZero(std, k_Uo) /\ HasLighting(std) /\ IsPartial(std, p)
      [] n = 4 -> /\ HasLighting(std)
                  /\ HasKeyword(lower(p.str), IndustrialWords)
                  /\ HasKeyword(TaskOf(std), IndustrialWords)
      [] n = 5 -> NonZero(std, k_Uo) /\ HasLighting(std) /\ HasKeyword(TaskOf(std), GenericWords)
      [] n = 6 -> HasLighting(std) /\ NonZero(std, k_Uo)

\* positions of the records of stds that satisfy rule n for profile p
Satisfying(n, stds, p) == {i \in 1..Len(stds) : Rule(n, stds[i], p)}

ResolverReturned == pc = "returned" /\ standards_data # EmptyDict

\* C6: when some record equals the profile case-insensitively and has lighting
\* requirements and a non-zero Uo, the resolver returns the first such record,
\* whatever records stand before or after it.
C6_ExactUniformityWins ==
    ResolverReturned =>
        LET stds == StandardsOf(standards_data)
            exact == Satisfying(1, stds, utilisation_profile)
        IN  exact # {} => standard = stds[Min(exact)]

\* an exact match without uniformity and a partial match stand before the
\* exact match with uniformity, which is returned
C6_Witness ==
    /\ ResolverReturned
    /\ LET stds == StandardsOf(standards_data)
           exact == Satisfying(1, stds, utilisation_profile)
       IN  /\ exact # {}
           /\ Min(exact) = 3
           /\ Rule(2, stds[1], utilisation_profile)
           /\ Rule(3, stds[2], utilisation_profile) /\ ~IsExact(stds[2], utilisation_profile)
           /\ standard = stds[3]

\* C7: the resolver returns the first record, in catalog order, of the
\* lowest-numbered rule of 1..6 that some record satisfies.
C7_StrictFallbackChain ==
    ResolverReturned =>
        LET stds == StandardsOf(standards_data)
            rules == {n \in 1..6 : Satisfying(n, stds, utilisation_profile) # {}}
        IN  rules # {} =>
                standard = stds[Min(Satisfying(Min(rules), stds, utilisation_profile))]

\* the industrial rule (4) decides, and a record that satisfies only a later
\* rule stands before the record returned
C7_Witness ==
    /\ ResolverReturned
    /\ LET stds == StandardsOf(standards_data)
           rules == {n \in 1..6 : Satisfying(n, stds, utilisation_profile) # {}}
       IN  /\ rules # {}
           /\ Min(rules) = 4
           /\ Len(stds) >= 2
           /\ Rule(5, stds[1], utilisation_profile)
           /\ standard = stds[Min(Satisfying(4, stds, utilisation_profile))]
           /\ standard # stds[1]

\* C8: with a record of non-zero Uo in the catalog the resolver never returns
\* None, and when no record satisfies rules 1-5 it returns the first record
\* with lighting and uniformity requirements.
C8_LastResort ==
    ResolverReturned =>
        LET stds == StandardsOf(standards_data)
            uniform == {i \in 1..Len(stds) : NonZero(stds[i], k_Uo)}
            earlier == {n \in 1..5 : Satisfying(n, stds, utilisation_profile) # {}}
        IN  uniform # {} =>
                /\ standard # Null
                /\ earlier = {} => standard = stds[Min(Satisfying(6, stds, utilisation_profile))]

\* a profile with no relation to any record gets the uniformity record that
\* follows a record without uniformity
C8_Witness ==
    /\ ResolverReturned
    /\ utilisation_profile = Str(u_Basket_weaving)
    /\ LET stds == StandardsOf(standards_data)
       IN  /\ Len(stds) >= 2
           /\ \A n \in 1..5 : Satisfying(n, stds, utilisation_profile) = {}
           /\ ~NonZero(stds[1], k_Uo)
           /\ standard = stds[2]

----------------------------------------------------------------------------
(* The evaluator called on its own, one check at a time *)

\* marks a key left out of a dict of the pools
NoKey == [nokey |-> TRUE]
MkDict(pairs) == Dict(SelectSeq(pairs, LAMBDA p : p.v # NoKey))

EvalStandardPool ==
    { MkDict(<<It(k_task_or_activity, Str(p_Office_work)), It(k_Em_r_lx, r), It(k_Em_u_lx, u),
               It(k_Uo, o), It(k_Ra, a)>>) :
        r \in {NoKey, Null, Num(0), Num(500)}, u \in {NoKey, Num(300)},
        o \in {NoKey, Num(0), Num(60)}, a \in {NoKey, Num(80)} }

EvalDataPool ==
    { MkDict(<<It(k_average_lux, l), It(k_uniformity, u), It(c[1], c[2])>>) :
        l \in {NoKey, Null, Num(400), Num(500), Num(600)},
        u \in {NoKey, Num(50), Num(65)},
        c \in { <<a_CRI, NoKey>>, <<a_CRI, Num(70)>>, <<d_cri, Num(90)>>,
                <<k_color_rendering_ra, Null>>, <<d_CRI_value, Num(80)>> } }

\* what _load_parameter_mapping returns: an alias file, the empty mapping, or
\* an alias file without a 'parameters' section
MappingPool ==
    { Dict(<<It(k_places, EmptyDict),
             It(k_parameters, Dict(<<It(k_color_rendering_ra, List(<<Str(a_Ra), Str(a_CRI)>>))>>))>>),
      Dict(<<It(k_places, EmptyDict), It(k_parameters, EmptyDict)>>),
      Dict(<<It(k_places, EmptyDict)>>) }

Room1 == Dict(<<It(k_name, Str(s_Room1)), It(k_utilisation_profile, Str(p_Office_work))>>)

InitRoom ==
    /\ pc = "perform_room_compliance_check"
    /\ variant \in {"web", "final"}
    /\ parameter_mapping \in MappingPool
    /\ room = Room1
    /\ standard \in EvalStandardPool
    /\ lighting_setup \in EvalDataPool
    /\ check_result = Idle
    /\ standards_data = Idle /\ report_data = Idle /\ results = Idle /\ room_index = 0
    /\ utilisation_profile = Idle /\ checks = Idle
    /\ now = 0 /\ other = Idle /\ raw_key = Idle /\ normalized_key = Idle /\ record = Idle /\ normalized = Idle
    /\ file_data = Idle /\ find_data = Idle /\ find_type = Idle /\ find_result = Idle

\* the step of the evaluator that the operator Check makes, from position at to position to
EvalStep(at, to, new) ==
    /\ pc = at
    /\ check_result' = new
    /\ pc' = IF IsRaised(new) THEN "raised" ELSE to
    /\ UNCHANGED <<variant, standards_data, parameter_mapping, report_data, results, room_index,
                   utilisation_profile, room, standard, lighting_setup, checks>>
    /\ UNCHANGED <<now, other, raw_key, normalized_key, record, normalized, file_data, find_data, find_type, find_result>>

BeginRoomCheck ==
    EvalStep("perform_room_compliance_check", "lux",
             NewCheckResult(room, standard, lighting_setup))

CheckLux ==
    EvalStep("lux", "uniformity",
             LuxCheck(check_result, variant, parameter_mapping, standard, lighting_setup))

CheckUniformity ==
    EvalStep("uniformity", "ra",
             UniformityCheck(check_result, variant, parameter_mapping, standard, lighting_setup))

CheckRa ==
    EvalStep("ra", "room_returned",
             RaCheck(check_result, variant, parameter_mapping, standard, lighting_setup))

NextRoom == BeginRoomCheck \/ CheckLux \/ CheckUniformity \/ CheckRa

SpecRoom == InitRoom /\ [][NextRoom]_vars

----------------------------------------------------------------------------
(* Claims about the evaluator *)

\* check_result exists: the evaluator is past its first statement and has not raised
HasResult == pc \in {"lux", "uniformity", "ra", "room_returned"}

Recorded(entry) == entry # NoEntry
Failing(entry) == Recorded(entry) /\ entry.compliant = Bool(FALSE)

\* C1: the room status starts as PASS, is FAIL at the end exactly when the lux
\* or the uniformity check recorded compliant = false, never goes back from
\* FAIL to PASS, and is left alone by the Ra check.
C1_StatusAtReturn ==
    /\ pc = "lux" => check_result.status = "PASS"
    /\ pc = "room_returned" =>
          (check_result.status = "FAIL" <=>
              Failing(check_result.checks.lux) \/ Failing(check_result.checks.uniformity))
    /\ HasResult => check_result.status \in {"PASS", "FAIL"}

C1_StatusStep ==
    /\ (HasResult /\ HasResult' /\ check_result.status = "FAIL") => check_result'.status = "FAIL"
    /\ (pc = "ra" /\ pc' = "room_returned") => check_result'.status = check_result.status

C1_RoomStatus == [](C1_StatusAtReturn) /\ [][C1_StatusStep]_vars

\* a room whose only failing parameter is Ra ends with status PASS
C1_Witness ==
    /\ pc = "room_returned"
    /\ Failing(check_result.checks.ra)
    /\ Recorded(check_result.checks.lux) /\ Recorded(check_result.checks.uniformity)
    /\ check_result.status = "PASS"

\* the required values as the claim words them
FieldOrZero(std, key) ==
    IF HasKey(std, key) /\ IsNum(Item(std, key)) /\ Item(std, key).num # 0
    THEN Item(std, key).num ELSE 0
RequiredLux(std) ==
    IF FieldOrZero(std, k_Em_r_lx) # 0 THEN FieldOrZero(std, k_Em_r_lx)
    ELSE FieldOrZero(std, k_Em_u_lx)
\* the measured value: the key's value, 0 when the key is absent
Measured(data, key) == IF HasKey(data, key) THEN Item(data, key) ELSE Num(0)

MandatoryRule(entry, required, measured) ==
    IF required > 0
    THEN /\ Recorded(entry)
         /\ entry.required = Num(required)
         /\ entry.actual = measured
         /\ entry.compliant = Bool(measured.num >= required)
    ELSE ~Recorded(entry)

\* C2: required illuminance is Em_r_lx when present and non-zero, else Em_u_lx
\* when present and non-zero, else 0; a lux entry is recorded exactly when
\* required > 0, with compliant = (measured >= required); with required <= 0
\* illuminance does not decide the status.  Uniformity likewise with Uo.
C2_MandatoryChecks ==
    pc = "room_returned" =>
        /\ MandatoryRule(check_result.checks.lux, RequiredLux(standard),
                         Measured(lighting_setup, k_average_lux))
        /\ MandatoryRule(check_result.checks.uniformity, FieldOrZero(standard, k_Uo),
                         Measured(lighting_setup, k_uniformity))
        /\ (RequiredLux(standard) <= 0 /\ check_result.status = "FAIL")
               => Failing(check_result.checks.uniformity)
        /\ (FieldOrZero(standard, k_Uo) <= 0 /\ check_result.status = "FAIL")
               => Failing(check_result.checks.lux)

\* Em_r_lx is absent or zero and Em_u_lx decides: measured 400 against 300
C2_Witness ==
    /\ pc = "room_returned"
    /\ FieldOrZero(standard, k_Em_r_lx) = 0
    /\ RequiredLux(standard) = 300
    /\ check_result.checks.lux.compliant = Bool(TRUE)
    /\ check_result.checks.lux.actual = Num(400)
    /\ ~Recorded(check_result.checks.uniformity)

MarginRule(entry) ==
    (Recorded(entry) /\ entry.compliant # Null) =>
        /\ entry.compliant = Bool(TRUE) =>
              /\ entry.margin = Num(entry.actual.num - entry.required.num)
              /\ entry.margin.num >= 0
        /\ entry.compliant = Bool(FALSE) =>
              /\ entry.margin = Num(entry.required.num - entry.actual.num)
              /\ entry.margin.num > 0

\* C3: in every recorded lux, uniformity or found-Ra entry, a compliant entry
\* has margin = actual - required >= 0 and a non-compliant one has
\* margin = required - actual > 0.
C3_MarginSign ==
    HasResult =>
        /\ MarginRule(check_result.checks.lux)
        /\ MarginRule(check_result.checks.uniformity)
        /\ MarginRule(check_result.checks.ra)

\* Scenario B: required 500, actual 400: compliant false, margin 100
C3_Witness ==
    /\ pc = "room_returned"
    /\ check_result.checks.lux = [required |-> Num(500), actual |-> Num(400),
                                  compliant |-> Bool(FALSE), margin |-> Num(100)]
    /\ check_result.status = "FAIL"

\* the Ra search of the evaluator on the measurement source at hand
RaSearch == find_parameter_value(variant, parameter_mapping, lighting_setup, k_color_rendering_ra)

\* C15: for illuminance, uniformity and colour rendering, when the requirement
\* is positive and the measured value cannot be found in the measurement
\* source, the recorded check has compliant = null, not true or false.
C15_NotFoundIsNull ==
    pc = "room_returned" =>
        /\ (RequiredLux(standard) > 0 /\ ~HasKey(lighting_setup, k_average_lux))
               => /\ Recorded(check_result.checks.lux)
                  /\ check_result.checks.lux.compliant = Null
        /\ (FieldOrZero(standard, k_Uo) > 0 /\ ~HasKey(lighting_setup, k_uniformity))
               => /\ Recorded(check_result.checks.uniformity)
                  /\ check_result.checks.uniformity.compliant = Null
        /\ (FieldOrZero(standard, k_Ra) > 0 /\ ~RaSearch.found)
               => /\ Recorded(check_result.checks.ra)
                  /\ check_result.checks.ra.compliant = Null

\* the Ra entry as the claim words it
RaRule ==
    /\ pc = "room_returned"
    /\ LET ra == check_result.checks.ra
           required == FieldOrZero(standard, k_Ra)
       IN  IF required > 0
           THEN /\ Recorded(ra)
                /\ ra.required = Num(required)
                /\ IF RaSearch.found
                   THEN /\ ra.found
                        /\ ra.source = RaSearch.source
                        /\ HasKey(lighting_setup, ra.source.str)
                        /\ ra.actual = Item(lighting_setup, ra.source.str)
                        /\ ra.compliant = Bool(ra.actual.num >= required)
                   ELSE /\ ~ra.found
                        /\ ra.source = Null /\ ra.actual = Null
                        /\ ra.compliant = Null /\ ra.margin = Null
           ELSE ~Recorded(ra)

\* C16: an 'ra' entry is recorded exactly when the standard's Ra is > 0; with
\* no measured value under any registered alias it has found = false and
\* source, actual, compliant, margin null; with a value found it has
\* found = true, source the matching data key and compliant = (value >=
\* required Ra).  Stated of the Ra step of the evaluator.
C16_RaEntry == [][pc = "ra" => RaRule']_vars

----------------------------------------------------------------------------
(* The rollup and the summary called on their own *)

MaxChecks == 4

StatusPool == {"PASS", "FAIL", "NO_STANDARD_FOUND", "SKIPPED"}

InitRollup ==
    /\ pc = "determine_overall_compliance"
    /\ checks \in SeqsUpTo({[status |-> s] : s \in StatusPool}, MaxChecks)
    /\ results = Idle
    /\ variant = "web" /\ standards_data = Idle /\ parameter_mapping = Idle
    /\ report_data = Idle /\ room_index = 0 /\ utilisation_profile = Idle
    /\ room = Idle /\ standard = Idle /\ lighting_setup = Idle /\ check_result = Idle
    /\ now = 0 /\ other = Idle /\ raw_key = Idle /\ normalized_key = Idle /\ record = Idle /\ normalized = Idle
    /\ file_data = Idle /\ find_data = Idle /\ find_type = Idle /\ find_result = Idle

DetermineOverallCompliance ==
    /\ pc = "determine_overall_compliance"
    /\ results' = [overall_compliance |-> determine_overall_compliance(checks),
                   summary |-> generate_summary(checks)]
    /\ pc' = "rollup_returned"
    /\ UNCHANGED <<variant, standards_data, parameter_mapping, report_data, room_index,
                   utilisation_profile, room, standard, lighting_setup, check_result, checks>>
    /\ UNCHANGED <<now, other, raw_key, normalized_key, record, normalized, file_data, find_data, find_type, find_result>>

NextRollup == DetermineOverallCompliance

SpecRollup == InitRollup /\ [][NextRollup]_vars

\* the statuses that occur in a list of entries
StatusSet(cs) == {cs[i].status : i \in 1..Len(cs)}

\* C4: the overall status follows the priority NO_CHECKS (no entry), FAIL,
\* PARTIAL, PASS; UNKNOWN only with a status outside PASS, FAIL,
\* NO_STANDARD_FOUND; the order of the rooms does not matter.
C4_RollupPriority ==
    pc = "rollup_returned" =>
        LET S == StatusSet(checks)
            overall == results.overall_compliance
        IN  /\ checks = <<>> => overall = "NO_CHECKS"
            /\ (checks # <<>> /\ "FAIL" \in S) => overall = "FAIL"
            /\ (checks # <<>> /\ "FAIL" \notin S /\ "NO_STANDARD_FOUND" \in S)
                   => overall = "PARTIAL"
            /\ (checks # <<>> /\ S = {"PASS"}) => overall = "PASS"
            /\ overall = "UNKNOWN" => S \ {"PASS", "FAIL", "NO_STANDARD_FOUND"} # {}
            /\ \A i, j \in 1..Len(checks) :
                   determine_overall_compliance(
                       [checks EXCEPT ![i] = checks[j], ![j] = checks[i]]) = overall

\* a NO_STANDARD_FOUND entry stands before a FAIL entry and the result is FAIL
C4_Witness ==
    /\ pc = "rollup_returned"
    /\ Len(checks) >= 3
    /\ checks[1].status = "NO_STANDARD_FOUND"
    /\ checks[2].status = "PASS"
    /\ checks[3].status = "FAIL"
    /\ results.overall_compliance = "FAIL"

----------------------------------------------------------------------------
(* check_compliance *)

MaxRooms == 2
MaxScenes == 2

RoomPool ==
    { Room1,
      Dict(<<It(k_name, Str(s_Factory_Hall_A)), It(k_utilisation_profile, Str(<<>>))>>),
      Dict(<<It(k_name, Str(s_Storage))>>) }

ScenePool ==
    { Dict(<<It(k_scene_name, Str(s_Scene_1)), It(k_average_lux, Num(600)),
             It(k_uniformity, Num(65))>>),
      Dict(<<It(k_scene_name, Str(t_Factory_floor)), It(k_average_lux, Num(400)),
             It(k_uniformity, Num(65)), It(a_CRI, Num(70))>>),
      Dict(<<It(k_scene_name, Str(s_Working_place)), It(k_utilisation_profile, Str(p_Office_work)),
             It(k_average_lux, Num(500)), It(k_uniformity, Num(50))>>) }

\* the rest of a report: (metadata, lighting_setup)
ShellPool ==
    { <<NoKey, Dict(<<It(k_average_lux, Num(500)), It(k_uniformity, Num(60))>>)>>,
      <<Dict(<<It(k_project_name, Str(s_Factory_X))>>), NoKey>> }

\* catalogs: the one of Scenario A; one whose only record has no uniformity
\* requirement, so that other profiles find no standard; one without an
\* office record
CatalogPool ==
    { Catalog(<<Dict(<<It(k_task_or_activity, Str(p_Office_work)), It(k_Em_r_lx, Num(500)),
                       It(k_Uo, Num(60))>>)>>),
      Catalog(<<Dict(<<It(k_task_or_activity, Str(p_Office_work)), It(k_Em_r_lx, Num(500)),
                       It(k_Ra, Num(80))>>)>>),
      Catalog(<<Dict(<<It(k_task_or_activity, Str(t_Factory_floor)), It(k_Em_r_lx, Num(300))>>),
                Dict(<<It(k_task_or_activity, Str(p_Storage_areas)), It(k_Em_u_lx, Num(300)),
                       It(k_Uo, Num(40)), It(k_Ra, Num(80))>>)>>) }

FullMapping ==
    Dict(<<It(k_places, EmptyDict),
           It(k_parameters, Dict(<<It(k_color_rendering_ra, List(<<Str(a_Ra), Str(a_CRI)>>))>>))>>)

Init ==
    /\ pc = "check_compliance"
    /\ variant \in {"web", "final"}
    /\ standards_data \in CatalogPool
    /\ parameter_mapping = FullMapping
    /\ report_data \in
          { MkDict(<<It(k_metadata, sh[1]), It(k_lighting_setup, sh[2]), It(k_rooms, List(rs)),
                     It(k_scenes, List(ss))>>) :
              sh \in ShellPool,
              rs \in SeqsUpTo(RoomPool, MaxRooms), ss \in SeqsUpTo(ScenePool, MaxScenes) }
    /\ results = Idle
    /\ room_index = 0
    /\ utilisation_profile = Idle /\ room = Idle /\ standard = Idle /\ lighting_setup = Idle
    /\ check_result = Idle /\ checks = Idle
    /\ now = 0 /\ other = Idle /\ raw_key = Idle /\ normalized_key = Idle /\ record = Idle /\ normalized = Idle
    /\ file_data = Idle /\ find_data = Idle /\ find_type = Idle /\ find_result = Idle

\* mutant: the summary of a later call starts from the clock
NewResults_SummaryFromClock(t) ==
    [overall_compliance |-> "UNKNOWN", checks |-> <<>>,
     summary |-> IF t = 0 THEN EmptyDict ELSE Dict(<<>> \o <<[k |-> k_name, v |-> Num(t)]>>),
     timestamp |-> t, error |-> NoKey]

\* the results mapping as first built; t is datetime.now()
NewResults(t) == [overall_compliance |-> "UNKNOWN", checks |-> <<>>, summary |-> EmptyDict,
                  timestamp |-> t, error |-> NoKey]

\* the rooms of the report
RoomsOf(report) == Get(report, k_rooms, List(<<>>))

\* mutant: only a null rooms value counts as no room data
NoRooms_NullOnly(report) == IsNull(RoomsOf(report))

\* if not rooms
NoRooms(report) == ~Truthy(RoomsOf(report))

\* mutant: the exception is recorded and the status left as it was
Caught_StatusKept(res, e) == [res EXCEPT !.error = e]

\* except Exception as e: the checks appended so far stay
Caught(res, e) == [res EXCEPT !.overall_compliance = "ERROR", !.error = e]

\* the entry of a room without matching standard
NoStandardEntry(rm, profile) ==
    [room |-> Get(rm, k_name, Str(s_Unknown)),
     utilisation_profile |-> profile,
     status |-> "NO_STANDARD_FOUND",
     message |-> "No matching standard found"]

\* the room loop from position i on, res the results so far
RECURSIVE RoomLoop(_, _, _, _, _, _)
RoomLoop(v, sd, pm, report, i, res) ==
    IF i > Len(RoomsOf(report).list)
    THEN [res EXCEPT !.overall_compliance = determine_overall_compliance(res.checks),
                     !.summary = generate_summary(res.checks)]
    ELSE LET profile == resolved_profile(v, report, i)
             std == find_matching_standard(sd, profile)
             cr == perform_room_compliance_check(v, pm, RoomsOf(report).list[i], std,
                                                 lighting_data(report, i))
         IN  IF IsRaised(profile) THEN Caught(res, profile)
             ELSE IF ~Truthy(profile) THEN RoomLoop(v, sd, pm, report, i + 1, res)
             ELSE IF IsRaised(std) THEN Caught(res, std)
             ELSE IF ~Truthy(std)
                  THEN RoomLoop(v, sd, pm, report, i + 1,
                                [res EXCEPT !.checks = Append(@,
                                    NoStandardEntry(RoomsOf(report).list[i], profile))])
             ELSE IF IsRaised(cr) THEN Caught(res, cr)
             ELSE RoomLoop(v, sd, pm, report, i + 1, [res EXCEPT !.checks = Append(@, cr)])

\* check_compliance(report_data) as a whole, called at clock value t
check_compliance(v, sd, pm, report, t) ==
    IF ~IsDict(report) THEN Caught(NewResults(t), Raised("AttributeError"))
    ELSE IF NoRooms(report)
         THEN [NewResults(t) EXCEPT !.overall_compliance = "ERROR",
                                    !.error = Str(s_No_room_data)]
         ELSE RoomLoop(v, sd, pm, report, 1, NewResults(t))

\* check_compliance up to the room loop
BeginCheckCompliance ==
    /\ pc = "check_compliance"
    /\ IF ~IsDict(report_data)
       THEN /\ results' = Caught(NewResults(now), Raised("AttributeError"))
            /\ pc' = "returned"
            /\ UNCHANGED room_index
       ELSE IF NoRooms(report_data)
       THEN /\ results' = [NewResults(now) EXCEPT !.overall_compliance = "ERROR",
                                                  !.error = Str(s_No_room_data)]
            /\ pc' = "returned"
            /\ UNCHANGED room_index
       ELSE /\ results' = NewResults(now)
            /\ pc' = "room"
            /\ room_index' = 1
    /\ now' = now + 1
    /\ UNCHANGED <<variant, standards_data, parameter_mapping, report_data,
                   utilisation_profile, room, standard, lighting_setup, check_result, checks,
                   other, raw_key, normalized_key, record, normalized, file_data, find_data, find_type, find_result>>

\* the head of the room loop: the room's utilisation profile is settled
DetermineProfile ==
    /\ pc = "room"
    /\ room_index <= Len(RoomsOf(report_data).list)
    /\ room' = RoomsOf(report_data).list[room_index]
    /\ utilisation_profile' = resolved_profile(variant, report_data, room_index)
    /\ IF IsRaised(utilisation_profile')
       THEN /\ results' = Caught(results, utilisation_profile')
            /\ pc' = "returned"
            /\ UNCHANGED room_index
       ELSE IF ~Truthy(utilisation_profile')
       THEN /\ room_index' = room_index + 1
            /\ UNCHANGED <<results, pc>>
       ELSE /\ pc' = "find_standard"
            /\ UNCHANGED <<results, room_index>>
    /\ UNCHANGED <<variant, standards_data, parameter_mapping, report_data,
                   standard, lighting_setup, check_result, checks>>
    /\ UNCHANGED <<now, other, raw_key, normalized_key, record, normalized, file_data, find_data, find_type, find_result>>

\* standard = self.find_matching_standard(utilisation_profile)
FindStandard ==
    /\ pc = "find_standard"
    /\ standard' = find_matching_standard(standards_data, utilisation_profile)
    /\ IF IsRaised(standard')
       THEN /\ results' = Caught(results, standard')
            /\ pc' = "returned"
            /\ UNCHANGED room_index
       ELSE IF ~Truthy(standard')
       THEN /\ results' = [results EXCEPT
                              !.checks = Append(@, NoStandardEntry(room, utilisation_profile))]
            /\ room_index' = room_index + 1
            /\ pc' = "room"
       ELSE /\ pc' = "select_source"
            /\ UNCHANGED <<results, room_index>>
    /\ UNCHANGED <<variant, standards_data, parameter_mapping, report_data,
                   utilisation_profile, room, lighting_setup, check_result, checks>>
    /\ UNCHANGED <<now, other, raw_key, normalized_key, record, normalized, file_data, find_data, find_type, find_result>>

\* the scene data of the room, else the report's lighting_setup
SelectSource ==
    /\ pc = "select_source"
    /\ lighting_setup' = lighting_data(report_data, room_index)
    /\ pc' = "evaluate"
    /\ UNCHANGED <<variant, standards_data, parameter_mapping, report_data, results, room_index,
                   utilisation_profile, room, standard, check_result, checks>>
    /\ UNCHANGED <<now, other, raw_key, normalized_key, record, normalized, file_data, find_data, find_type, find_result>>

\* check_result = self._perform_room_compliance_check(room, standard, lighting_data)
EvaluateRoom ==
    /\ pc = "evaluate"
    /\ check_result' = perform_room_compliance_check(variant, parameter_mapping, room, standard,
                                                     lighting_setup)
    /\ IF IsRaised(check_result')
       THEN /\ results' = Caught(results, check_result')
            /\ pc' = "returned"
            /\ UNCHANGED room_index
       ELSE /\ results' = [results EXCEPT !.checks = Append(@, check_result')]
            /\ room_index' = room_index + 1
            /\ pc' = "room"
    /\ UNCHANGED <<variant, standards_data, parameter_mapping, report_data,
                   utilisation_profile, room, standard, lighting_setup, checks>>
    /\ UNCHANGED <<now, other, raw_key, normalized_key, record, normalized, file_data, find_data, find_type, find_result>>

\* mutant: after the loop only the summary is set
FinishCheckCompliance_StatusKept ==
    /\ pc = "room"
    /\ room_index > Len(RoomsOf(report_data).list)
    /\ results' = [results EXCEPT !.summary = generate_summary(results.checks)]
    /\ pc' = "returned"
    /\ UNCHANGED <<variant, standards_data, parameter_mapping, report_data, room_index,
                   utilisation_profile, room, standard, lighting_setup, check_result, checks>>
    /\ UNCHANGED <<now, other, raw_key, normalized_key, record, normalized, file_data, find_data, find_type, find_result>>

\* after the loop: the overall status and the summary
FinishCheckCompliance ==
    /\ pc = "room"
    /\ room_index > Len(RoomsOf(report_data).list)
    /\ results' = [results EXCEPT
                      !.overall_compliance = determine_overall_compliance(results.checks),
                      !.summary = generate_summary(results.checks)]
    /\ pc' = "returned"
    /\ UNCHANGED <<variant, standards_data, parameter_mapping, report_data, room_index,
                   utilisation_profile, room, standard, lighting_setup, check_result, checks>>
    /\ UNCHANGED <<now, other, raw_key, normalized_key, record, normalized, file_data, find_data, find_type, find_result>>

Next ==
    \/ BeginCheckCompliance
    \/ DetermineProfile
    \/ FindStandard
    \/ SelectSource
    \/ EvaluateRoom
    \/ FinishCheckCompliance

Spec == Init /\ [][Next]_vars
----------------------------------------------------------------------------
(* Properties of check_compliance *)

\* check_compliance has returned a result with a summary
HasSummary == pc = "returned" /\ results.summary # EmptyDict

\* C5: in every result of check_compliance with a non-empty summary,
\* passed + failed + no_standard_found = total_rooms, total_rooms is the
\* number of entries of checks, and pass_rate * total_rooms = passed * 100
\* (pass_rate 0 when total_rooms is 0).
C5_SummaryConsistency ==
    HasSummary =>
        LET s == results.summary
        IN  /\ s.passed + s.failed + s.no_standard_found = s.total_rooms
            /\ s.total_rooms = Len(results.checks)
            /\ s.pass_rate.num * s.total_rooms = s.passed * 100 * s.pass_rate.den
            /\ s.total_rooms = 0 => s.pass_rate.num = 0

\* a summary over a passed room and a room without standard
C5_Witness ==
    /\ HasSummary
    /\ results.summary.total_rooms = 2
    /\ results.summary.passed = 1
    /\ results.summary.no_standard_found = 1

\* the scenes of the report
ScenesOf(report) == Get(report, k_scenes, List(<<>>)).list

\* the source by position: scenes[i], else scenes[0], else lighting_setup
SourceByPosition(report, i) ==
    IF i <= Len(ScenesOf(report)) THEN ScenesOf(report)[i]
    ELSE IF ScenesOf(report) # <<>> THEN ScenesOf(report)[1]
    ELSE Get(report, k_lighting_setup, EmptyDict)

\* C9: for every room position i whose standard was resolved, the data
\* handed to the evaluator is scenes[i] when a scene exists at i, else
\* scenes[0] when a scene exists, else the report's lighting_setup,
\* whatever the room records hold.
C9_SourceByPosition ==
    pc = "evaluate" => lighting_setup = SourceByPosition(report_data, room_index)

\* the profile the room at the loop position declares
Declared == Get(room, k_utilisation_profile, Str(<<>>))

\* what the scene step yields for the room at the loop position
SceneStepValue ==
    IF ScenesOf(report_data) = <<>> THEN Str(<<>>)
    ELSE IF variant = "web" THEN SceneProfileWeb(ScenesOf(report_data), room_index)
                            ELSE SceneProfileFinal(ScenesOf(report_data))

\* what the room-name step yields for the room at the loop position
NameStepValue ==
    IF variant = "web" THEN NameProfileWeb(room, report_data) ELSE NameProfileFinal(room)

\* C10: a declared non-blank profile is the string the standard is resolved
\* with; the scenes are consulted only when the declared profile is blank,
\* and the room name only when the scene step yields nothing as well.
C10_ProfilePrecedence ==
    pc = "find_standard" =>
        /\ Truthy(Declared) => utilisation_profile = Declared
        /\ (~Truthy(Declared) /\ Truthy(SceneStepValue))
               => utilisation_profile = SceneStepValue
        /\ (~Truthy(Declared) /\ ~Truthy(SceneStepValue))
               => utilisation_profile = NameStepValue

\* a room with a declared profile while the scene at its position names
\* another one
C10_Witness ==
    /\ pc = "find_standard"
    /\ Truthy(Declared)
    /\ Truthy(SceneStepValue)
    /\ SceneStepValue # Declared
    /\ NameStepValue # Declared
    /\ utilisation_profile = Declared

\* C11: every entry check_compliance emits, evaluated or NO_STANDARD_FOUND,
\* carries in utilisation_profile the resolved profile the standard was looked
\* up with, also when the profile was inferred from a scene or the room name.
C11_EntryCarriesResolvedProfile ==
    (pc = "room" /\ results.checks # <<>>) =>
        results.checks[Len(results.checks)].utilisation_profile = utilisation_profile

----------------------------------------------------------------------------
(* check_compliance on reports with missing, null and malformed parts *)

FactoryRoom ==
    Dict(<<It(k_name, Str(s_Factory_Hall_A)), It(k_utilisation_profile, Str(<<>>))>>)
\* a room that declares no profile and is named 'Room1'
PlainRoom == Dict(<<It(k_name, Str(s_Room1))>>)
GoodScene(lux) ==
    Dict(<<It(k_scene_name, Str(s_Scene_1)), It(k_average_lux, lux), It(k_uniformity, Num(65))>>)
GoodSetup == Dict(<<It(k_average_lux, Num(500)), It(k_uniformity, Num(60))>>)

\* a report; NoKey stands for a key the report does not hold
Report(rooms, scenes, setup, metadata) ==
    MkDict(<<It(k_metadata, metadata), It(k_lighting_setup, setup), It(k_rooms, rooms),
             It(k_scenes, scenes)>>)

\* scenes with one null field the core reads
NullFieldScenes ==
    { MkDict(<<It(k_scene_name, n), It(k_average_lux, l), It(k_uniformity, u)>>) :
        n \in {Str(s_Scene_1), Null}, l \in {Num(600), Null}, u \in {Num(65), Null} }
    \ { MkDict(<<It(k_scene_name, Str(s_Scene_1)), It(k_average_lux, Num(600)),
                 It(k_uniformity, Num(65))>>) }

\* reports whose only defect is a null where a value is read
NullFieldReports ==
    { Report(List(rs), List(<<sc>>), GoodSetup, NoKey) :
        rs \in {<<Room1>>, <<FactoryRoom>>, <<Room1, FactoryRoom>>}, sc \in NullFieldScenes }
    \cup { Report(List(rs), NoKey, Null, NoKey) :
             rs \in {<<Room1>>, <<FactoryRoom>>, <<Room1, FactoryRoom>>} }

\* reports with zero rooms: the key absent, null, or an empty list
ZeroRoomReports ==
    { Report(rs, sc, GoodSetup, NoKey) :
        rs \in {NoKey, Null, List(<<>>)}, sc \in {NoKey, List(<<GoodScene(Num(600))>>)} }

\* reports with entries of the wrong kind
MalformedReports ==
    { Null,
      Report(List(<<Null>>), NoKey, GoodSetup, NoKey),
      Report(List(<<Str(s_Room1)>>), NoKey, GoodSetup, NoKey),
      Report(List(<<Room1, Null>>), List(<<GoodScene(Num(600))>>), GoodSetup, NoKey),
      Report(List(<<Dict(<<It(k_name, Str(s_Room1)), It(k_utilisation_profile, Num(5))>>)>>),
             NoKey, GoodSetup, NoKey),
      Report(List(<<FactoryRoom>>), List(<<Null>>), GoodSetup, NoKey),
      Report(List(<<PlainRoom>>), Null, GoodSetup, Null),
      Report(List(<<Room1>>), List(<<Str(s_Scene_1)>>), GoodSetup, NoKey),
      Report(List(<<Room1, Room1>>), List(<<GoodScene(Num(600)), GoodScene(Null)>>),
             GoodSetup, NoKey) }

WellFormedReports ==
    { Report(List(rs), sc, GoodSetup, NoKey) :
        rs \in {<<Room1>>, <<PlainRoom, FactoryRoom>>},
        sc \in {NoKey, List(<<GoodScene(Num(400))>>)} }

\* what the loaders return when the catalog cannot be used
UnusableCatalogs == {EmptyDict, Catalog(<<>>)}

InitMalformed ==
    /\ pc = "check_compliance"
    /\ variant \in {"web", "final"}
    /\ standards_data \in CatalogPool \cup UnusableCatalogs
    /\ parameter_mapping = FullMapping
    /\ report_data \in
          NullFieldReports \cup ZeroRoomReports \cup MalformedReports \cup WellFormedReports
    /\ results = Idle
    /\ room_index = 0
    /\ utilisation_profile = Idle /\ room = Idle /\ standard = Idle /\ lighting_setup = Idle
    /\ check_result = Idle /\ checks = Idle
    /\ now = 0 /\ other = Idle /\ raw_key = Idle /\ normalized_key = Idle /\ record = Idle /\ normalized = Idle
    /\ file_data = Idle /\ find_data = Idle /\ find_type = Idle /\ find_result = Idle

SpecMalformed == InitMalformed /\ [][Next]_vars

\* an exception was raised in the invocation under way
ExceptionRaised ==
    \/ IsRaised(utilisation_profile) \/ IsRaised(standard) \/ IsRaised(check_result)
    \/ (pc # "check_compliance" /\ ~IsDict(report_data))

\* C12: check_compliance never raises to its caller: whatever the report and
\* the catalog, the invocation is at one of its own positions until it returns
\* a mapping with overall_compliance, checks, summary and timestamp, and an
\* exception raised on the way ends the invocation with overall_compliance =
\* 'ERROR' and the exception in 'error'.
C12_NeverRaises ==
    /\ pc \in {"check_compliance", "room", "find_standard", "select_source", "evaluate",
               "returned"}
    /\ pc = "returned" =>
          /\ DOMAIN results = {"overall_compliance", "checks", "summary", "timestamp", "error"}
          /\ results.timestamp \in Nat
          /\ results.error # NoKey => results.overall_compliance = "ERROR"
    /\ ExceptionRaised =>
          /\ pc = "returned"
          /\ results.overall_compliance = "ERROR"
          /\ IsRaised(results.error)

\* the second room is not a mapping: the entry of the first room stays and
\* the result is ERROR
C12_Witness ==
    /\ pc = "returned"
    /\ IsRaised(utilisation_profile)
    /\ Len(results.checks) = 1
    /\ results.overall_compliance = "ERROR"
    /\ results.summary = EmptyDict

\* the report has no rooms
ZeroRooms(report) ==
    /\ IsDict(report)
    /\ HasKey(report, k_rooms) => Item(report, k_rooms) \in {Null, List(<<>>)}

\* C13: a report with zero rooms (key absent, null or empty) returns
\* overall_compliance = 'ERROR' with a non-empty error message, an empty
\* summary and no checks, and the catalog is not consulted; the result is not
\* NO_CHECKS.
C13_ZeroRooms ==
    ZeroRooms(report_data) =>
        /\ standard = Idle
        /\ pc \in {"check_compliance", "returned"}
        /\ pc = "returned" =>
              /\ results.overall_compliance = "ERROR"
              /\ IsStr(results.error) /\ results.error.str # <<>>
              /\ results.summary = EmptyDict
              /\ results.checks = <<>>

\* the rooms key is absent and the call has returned
C13_Witness ==
    /\ pc = "returned"
    /\ IsDict(report_data) /\ ~HasKey(report_data, k_rooms)
    /\ HasKey(standards_data, k_standards) /\ StandardsOf(standards_data) # <<>>
    /\ results.overall_compliance = "ERROR"

\* C14: a field that is present but null where the core reads it (a scene's
\* average_lux, uniformity or scene_name, the lighting_setup record) is taken
\* as absent or zero: the report still gets its per-room entries and a
\* rolled-up status, never overall_compliance = 'ERROR'.
C14_NullTolerance ==
    (pc = "returned" /\ report_data \in NullFieldReports) =>
        /\ results.overall_compliance # "ERROR"
        /\ Len(results.checks) = Len(RoomsOf(report_data).list)

----------------------------------------------------------------------------
(* The profile step of the room loop on its own *)

\* room names: one keyword, two keywords of different rules, none
RoomNamePool ==
    { <<"O", "f", "f", "i", "c", "e">>,
      <<"O", "F", "F", "I", "C", "E", " ", "2">>,
      <<"F", "a", "c", "t", "o", "r", "y", " ", "O", "f", "f", "i", "c", "e">>,
      <<"F", "a", "c", "t", "o", "r", "y", " ", "H", "a", "l", "l", " ", "A">>,
      <<"W", "a", "r", "e", "h", "o", "u", "s", "e", " ", "S", "t", "o", "r", "e">>,
      <<"I", "n", "d", "u", "s", "t", "r", "i", "a", "l", " ", "C", "o", "r", "r", "i", "d", "o", "r">>,
      <<"H", "a", "l", "l", "w", "a", "y", " ", "s", "t", "o", "r", "a", "g", "e">>,
      <<"S", "t", "o", "r", "a", "g", "e", " ", "R", "o", "o", "m">>,
      <<"C", "o", "r", "r", "i", "d", "o", "r">>,
      <<"B", "u", "i", "l", "d", "i", "n", "g", " ", "2">>,
      <<"R", "o", "o", "m", "1">>,
      <<"L", "o", "b", "b", "y">> }

\* a scene that yields no profile, and a scene that declares one
SceneOptions ==
    { NoKey, List(<<GoodScene(Num(600))>>),
      List(<<Dict(<<It(k_scene_name, Str(s_Scene_1)), It(k_utilisation_profile, Str(p_Storage_areas)),
                    It(k_average_lux, Num(500))>>)>>) }

\* check_compliance at the head of its loop, on a report of one room
InitProfile ==
    /\ pc = "room"
    /\ room_index = 1
    /\ variant \in {"web", "final"}
    /\ standards_data \in CatalogPool
    /\ parameter_mapping = FullMapping
    /\ report_data \in
          { Report(List(<<MkDict(<<It(k_name, n), It(k_utilisation_profile, d)>>)>>), sc,
                   GoodSetup, NoKey) :
              n \in {Str(s) : s \in RoomNamePool} \cup {Null},
              d \in {NoKey, Null, Str(<<>>), Str(p_Office_work)},
              sc \in SceneOptions }
    /\ results = NewResults(0)
    /\ utilisation_profile = Idle /\ room = Idle /\ standard = Idle /\ lighting_setup = Idle
    /\ check_result = Idle /\ checks = Idle
    /\ now = 1 /\ other = Idle /\ raw_key = Idle /\ normalized_key = Idle /\ record = Idle /\ normalized = Idle
    /\ file_data = Idle /\ find_data = Idle /\ find_type = Idle /\ find_result = Idle

NextProfile == DetermineProfile

SpecProfile == InitProfile /\ [][NextProfile]_vars

\* the rule of the final-project checker as the claim words it, on the
\* lower-cased room name n
FinalNameRule(n) ==
    IF Contains(kw_office, n) THEN p_Office_work
    ELSE IF \E w \in {kw_factory, kw_warehouse, kw_industrial} : Contains(w, n)
         THEN p_General_assembly_work
    ELSE IF \E w \in {kw_corridor, kw_hallway} : Contains(w, n) THEN p_Corridors
    ELSE IF Contains(kw_storage, n) THEN p_Storage_areas
    ELSE IF \E w \in {kw_building, kw_room} : Contains(w, n) THEN p_General_assembly_work
    ELSE p_General_lighting

\* the name of the room at the loop position, lower-cased; '' when null or absent
LowerName ==
    IF HasKey(room, k_name) /\ IsStr(Item(room, k_name))
    THEN lower(Item(room, k_name).str) ELSE <<>>

\* C17: in the final-project checker a room with blank declared profile and
\* no profile from the scenes gets, testing its lower-cased name in this
\* order: 'Office work' for 'office'; 'General assembly work' for 'factory',
\* 'warehouse', 'industrial'; the corridor profile for 'corridor', 'hallway';
\* 'Storage areas' for 'storage'; 'General assembly work' for 'building',
\* 'room'; else 'General lighting'.
C17_NameInference ==
    (pc = "find_standard" /\ variant = "final" /\ ~Truthy(Declared) /\ ~Truthy(SceneStepValue))
        => utilisation_profile = Str(FinalNameRule(LowerName))

\* 'Factory Hall A' with no scenes is resolved as 'General assembly work'
C17_Witness ==
    /\ pc = "find_standard" /\ variant = "final"
    /\ Get(room, k_name, Null) = Str(s_Factory_Hall_A)
    /\ ~Truthy(Declared)
    /\ ~HasKey(report_data, k_scenes)
    /\ utilisation_profile = Str(p_General_assembly_work)

----------------------------------------------------------------------------
(* Two invocations of check_compliance on one checker *)

\* mutant: the loop position is kept on the checker and not in the invocation
Frame_SharedLoop ==
    [pc |-> pc, report_data |-> report_data, results |-> results,
     room_index |-> IF other.room_index = 0 THEN room_index ELSE other.room_index,
     utilisation_profile |-> utilisation_profile, room |-> room, standard |-> standard,
     lighting_setup |-> lighting_setup, check_result |-> check_result]

\* the locals of the invocation under way
Frame ==
    [pc |-> pc, report_data |-> report_data, results |-> results, room_index |-> room_index,
     utilisation_profile |-> utilisation_profile, room |-> room, standard |-> standard,
     lighting_setup |-> lighting_setup, check_result |-> check_result]

\* the frame of an invocation that was called and has not run yet
Called(report) ==
    [pc |-> "check_compliance", report_data |-> report, results |-> Idle, room_index |-> 0,
     utilisation_profile |-> Idle, room |-> Idle, standard |-> Idle, lighting_setup |-> Idle,
     check_result |-> Idle]

ConcurrentReports ==
    { Report(List(<<Room1>>), List(<<GoodScene(Num(600))>>), GoodSetup, NoKey),
      Report(List(<<FactoryRoom, Room1>>), List(<<GoodScene(Num(400))>>), GoodSetup, NoKey),
      Report(List(<<PlainRoom, Null>>), NoKey, GoodSetup, NoKey),
      Report(List(<<>>), NoKey, GoodSetup, NoKey) }

InitConcurrent ==
    /\ pc = "check_compliance"
    /\ variant \in {"web", "final"}
    /\ standards_data \in CatalogPool
    /\ parameter_mapping = FullMapping
    /\ report_data \in ConcurrentReports
    /\ other \in {Called(r) : r \in ConcurrentReports}
    /\ results = Idle
    /\ room_index = 0
    /\ utilisation_profile = Idle /\ room = Idle /\ standard = Idle /\ lighting_setup = Idle
    /\ check_result = Idle /\ checks = Idle
    /\ now = 0 /\ raw_key = Idle /\ normalized_key = Idle /\ record = Idle /\ normalized = Idle
    /\ file_data = Idle /\ find_data = Idle /\ find_type = Idle /\ find_result = Idle

\* the scheduler suspends the invocation under way and resumes the other one
Switch ==
    /\ other # Idle
    /\ other.pc # "returned"
    /\ other' = Frame
    /\ pc' = other.pc
    /\ report_data' = other.report_data
    /\ results' = other.results
    /\ room_index' = other.room_index
    /\ utilisation_profile' = other.utilisation_profile
    /\ room' = other.room
    /\ standard' = other.standard
    /\ lighting_setup' = other.lighting_setup
    /\ check_result' = other.check_result
    /\ UNCHANGED <<variant, standards_data, parameter_mapping, checks, now, raw_key,
                   normalized_key, record, normalized, file_data, find_data, find_type, find_result>>

NextConcurrent == Next \/ Switch

SpecConcurrent == InitConcurrent /\ [][NextConcurrent]_vars

\* a result without its timestamp
Timeless(res) == [res EXCEPT !.timestamp = 0]

\* both invocations have returned
BothReturned == pc = "returned" /\ other.pc = "returned"

Alone(report) ==
    Timeless(check_compliance(variant, standards_data, parameter_mapping, report, 0))

C19_Isolated ==
    /\ pc = "returned" => Timeless(results) = Alone(report_data)
    /\ other.pc = "returned" => Timeless(other.results) = Alone(other.report_data)

C19_ReadOnly ==
    /\ standards_data' = standards_data
    /\ parameter_mapping' = parameter_mapping

\* C19: no core operation changes the catalog or the parameter mapping, and
\* in every interleaving of two check_compliance invocations on one checker
\* each invocation returns what it returns when run alone.
C19_NoSharedMutation == [](C19_Isolated) /\ [][C19_ReadOnly]_vars

\* both invocations were suspended in the middle of their loops and returned
\* different results
C19_Witness ==
    /\ BothReturned
    /\ report_data # other.report_data
    /\ Len(results.checks) = 2 /\ Len(other.results.checks) = 1
    /\ results.timestamp < other.results.timestamp
    /\ Timeless(results) = Alone(report_data)

----------------------------------------------------------------------------
(* alias_normalizer: ALIASES and normalize_key *)

\* the alias table: canonical names in the order of the dict, each with its
\* list of aliases
ALIASES == <<
    [canonical |-> <<"E", "m", "_", "r", "_", "l", "x">>,
     aliases |-> <<
        <<"e", "m", "_", "r", "_", "l", "x">>,
        <<"e", "m">>,
        <<"e", "_", "m">>,
        <<"a", "v", "e", "r", "a", "g", "e", " ", "l", "u", "x">>,
        <<"m", "a", "i", "n", "t", "a", "i", "n", "e", "d", " ", "l", "u", "x">>,
        <<"t", "a", "r", "g", "e", "t", " ", "l", "u", "x">>,
        <<"m", "a", "i", "n", "t", "a", "i", "n", "e", "d", " ", "i", "l", "l", "u", "m", "i", "n", "a", "n", "c", "e">>,
        <<"r", "e", "q", "u", "i", "r", "e", "d", " ", "i", "l", "l", "u", "m", "i", "n", "a", "n", "c", "e">>,
        <<"r", "e", "f", "e", "r", "e", "n", "c", "e", " ", "i", "l", "l", "u", "m", "i", "n", "a", "n", "c", "e">>,
        <<"i", "l", "l", "u", "m", "i", "n", "a", "n", "c", "e">>,
        <<"l", "u", "x">>,
        <<"l", "x">>,
        <<"e", "m", "_", "r">>,
        <<"e", "m", "_", "r", "_", "l", "x">>,
        <<"m", "a", "i", "n", "t", "a", "i", "n", "e", "d", "_", "i", "l", "l", "u", "m", "i", "n", "a", "n", "c", "e">> >>],
    [canonical |-> <<"E", "m", "_", "u", "_", "l", "x">>,
     aliases |-> <<
        <<"e", "m", "_", "u", "_", "l", "x">>,
        <<"u", "p", "p", "e", "r", " ", "l", "u", "x">>,
        <<"m", "a", "x", " ", "l", "u", "x">>,
        <<"m", "a", "x", "i", "m", "u", "m", " ", "l", "u", "x">>,
        <<"r", "e", "c", "o", "m", "m", "e", "n", "d", "e", "d", " ", "l", "u", "x">>,
        <<"u", "p", "p", "e", "r", " ", "i", "l", "l", "u", "m", "i", "n", "a", "n", "c", "e">>,
        <<"m", "a", "x", " ", "i", "l", "l", "u", "m", "i", "n", "a", "n", "c", "e">>,
        <<"e", "m", "_", "u">>,
        <<"e", "m", "_", "u", "_", "l", "x">> >>],
    [canonical |-> <<"U", "o">>,
     aliases |-> <<
        <<"u", "o">>,
        <<"u", "0">>,
        <<"u", "n", "i", "f", "o", "r", "m", "i", "t", "y">>,
        <<"e", "m", "i", "n", "/", "e", "a", "v", "g">>,
        <<"m", "i", "n", "/", "a", "v", "g">>,
        <<"i", "l", "l", "u", "m", "i", "n", "a", "n", "c", "e", " ", "u", "n", "i", "f", "o", "r", "m", "i", "t", "y">>,
        <<"u", "n", "i", "f", "o", "r", "m", "i", "t", "y", " ", "r", "a", "t", "i", "o">>,
        <<"u", "n", "i", "f", "o", "r", "m", "i", "t", "y", " ", "f", "a", "c", "t", "o", "r">>,
        <<"u", "_", "o">>,
        <<"u", "n", "i", "f", "o", "r", "m", "i", "t", "y", "_", "i", "n", "d", "e", "x">> >>],
    [canonical |-> <<"R", "U", "G", "L">>,
     aliases |-> <<
        <<"r", "u", "g", "l">>,
        <<"u", "g", "r">>,
        <<"g", "l", "a", "r", "e", " ", "i", "n", "d", "e", "x">>,
        <<"u", "n", "i", "f", "i", "e", "d", " ", "g", "l", "a", "r", "e", " ", "r", "a", "t", "i", "n", "g">>,
        <<"g", "l", "a", "r", "e", " ", "r", "a", "t", "i", "n", "g">>,
        <<"u", "g", "r", " ", "l", "i", "m", "i", "t">>,
        <<"g", "l", "a", "r", "e", " ", "l", "i", "m", "i", "t">>,
        <<"u", "n", "i", "f", "i", "e", "d", "_", "g", "l", "a", "r", "e", "_", "r", "a", "t", "i", "n", "g">>,
        <<"g", "l", "a", "r", "e", "_", "r", "a", "t", "i", "n", "g">> >>],
    [canonical |-> <<"R", "a">>,
     aliases |-> <<
        <<"r", "a">>,
        <<"c", "r", "i">>,
        <<"c", "o", "l", "o", "r", " ", "r", "e", "n", "d", "e", "r", "i", "n", "g", " ", "i", "n", "d", "e", "x">>,
        <<"r", "_", "a">>,
        <<"c", "o", "l", "o", "u", "r", " ", "r", "e", "n", "d", "e", "r", "i", "n", "g", " ", "i", "n", "d", "e", "x">>,
        <<"c", "o", "l", "o", "r", " ", "r", "e", "n", "d", "e", "r", "i", "n", "g">>,
        <<"c", "o", "l", "o", "u", "r", " ", "r", "e", "n", "d", "e", "r", "i", "n", "g">>,
        <<"c", "r", "i", "_", "r", "a">>,
        <<"r", "e", "n", "d", "e", "r", "i", "n", "g", "_", "i", "n", "d", "e", "x">> >>],
    [canonical |-> <<"R", "9">>,
     aliases |-> <<
        <<"r", "9">>,
        <<"c", "r", "i", "_", "r", "9">>,
        <<"r", "e", "d", " ", "r", "e", "n", "d", "e", "r", "i", "n", "g">>,
        <<"r", "e", "d", " ", "c", "o", "l", "o", "r", " ", "r", "e", "n", "d", "e", "r", "i", "n", "g">>,
        <<"r", "_", "9">>,
        <<"r", "e", "d", "_", "r", "e", "n", "d", "e", "r", "i", "n", "g">>,
        <<"c", "r", "i", "_", "r", "e", "d">> >>],
    [canonical |-> <<"C", "C", "T">>,
     aliases |-> <<
        <<"c", "c", "t">>,
        <<"c", "t">>,
        <<"c", "o", "l", "o", "u", "r", " ", "t", "e", "m", "p", "e", "r", "a", "t", "u", "r", "e">>,
        <<"k">>,
        <<"k", "e", "l", "v", "i", "n">>,
        <<"c", "o", "l", "o", "r", " ", "t", "e", "m", "p", "e", "r", "a", "t", "u", "r", "e">>,
        <<"c", "o", "r", "r", "e", "l", "a", "t", "e", "d", " ", "c", "o", "l", "o", "u", "r", " ", "t", "e", "m", "p", "e", "r", "a", "t", "u", "r", "e">>,
        <<"c", "o", "r", "r", "e", "l", "a", "t", "e", "d", " ", "c", "o", "l", "o", "r", " ", "t", "e", "m", "p", "e", "r", "a", "t", "u", "r", "e">>,
        <<"c", "o", "l", "o", "u", "r", "_", "t", "e", "m", "p">>,
        <<"c", "o", "l", "o", "r", "_", "t", "e", "m", "p">>,
        <<"k", "e", "l", "v", "i", "n", "_", "t", "e", "m", "p">> >>],
    [canonical |-> <<"E", "z", "_", "l", "x">>,
     aliases |-> <<
        <<"e", "z", "_", "l", "x">>,
        <<"b", "a", "c", "k", "g", "r", "o", "u", "n", "d", " ", "l", "u", "x">>,
        <<"s", "u", "r", "r", "o", "u", "n", "d", " ", "i", "l", "l", "u", "m", "i", "n", "a", "n", "c", "e">>,
        <<"e", "_", "z">>,
        <<"e", "z">>,
        <<"b", "a", "c", "k", "g", "r", "o", "u", "n", "d", " ", "i", "l", "l", "u", "m", "i", "n", "a", "n", "c", "e">>,
        <<"s", "u", "r", "r", "o", "u", "n", "d", " ", "l", "u", "x">>,
        <<"a", "m", "b", "i", "e", "n", "t", " ", "i", "l", "l", "u", "m", "i", "n", "a", "n", "c", "e">> >>],
    [canonical |-> <<"l", "u", "m", "i", "n", "o", "u", "s", "_", "f", "l", "u", "x", "_", "l", "m">>,
     aliases |-> <<
        <<"l", "u", "m", "i", "n", "o", "u", "s", " ", "f", "l", "u", "x">>,
        <<"f", "l", "u", "x">>,
        <<"l", "m">>,
        <<"φ">>,
        <<"p", "h", "i">>,
        <<"l", "u", "m", "i", "n", "o", "u", "s", " ", "o", "u", "t", "p", "u", "t">>,
        <<"l", "i", "g", "h", "t", " ", "f", "l", "u", "x">>,
        <<"l", "i", "g", "h", "t", " ", "o", "u", "t", "p", "u", "t">>,
        <<"l", "u", "m", "i", "n", "o", "u", "s", "_", "f", "l", "u", "x">>,
        <<"l", "i", "g", "h", "t", "_", "f", "l", "u", "x">> >>],
    [canonical |-> <<"p", "o", "w", "e", "r", "_", "w">>,
     aliases |-> <<
        <<"p", "o", "w", "e", "r">>,
        <<"w", "a", "t", "t", "a", "g", "e">>,
        <<"l", "a", "m", "p", " ", "p", "o", "w", "e", "r">>,
        <<"p">>,
        <<"w">>,
        <<"w", "a", "t", "t", "s">>,
        <<"e", "l", "e", "c", "t", "r", "i", "c", "a", "l", " ", "p", "o", "w", "e", "r">>,
        <<"l", "a", "m", "p", " ", "w", "a", "t", "t", "a", "g", "e">>,
        <<"f", "i", "x", "t", "u", "r", "e", " ", "p", "o", "w", "e", "r">>,
        <<"l", "u", "m", "i", "n", "o", "u", "s", "_", "p", "o", "w", "e", "r">> >>],
    [canonical |-> <<"m", "o", "u", "n", "t", "i", "n", "g", "_", "h", "e", "i", "g", "h", "t", "_", "m">>,
     aliases |-> <<
        <<"m", "o", "u", "n", "t", "i", "n", "g", " ", "h", "e", "i", "g", "h", "t">>,
        <<"s", "u", "s", "p", "e", "n", "s", "i", "o", "n", " ", "h", "e", "i", "g", "h", "t">>,
        <<"h", "m">>,
        <<"h", "e", "i", "g", "h", "t">>,
        <<"m", "o", "u", "n", "t", "i", "n", "g", "_", "h", "e", "i", "g", "h", "t">>,
        <<"s", "u", "s", "p", "e", "n", "s", "i", "o", "n", "_", "h", "e", "i", "g", "h", "t">>,
        <<"f", "i", "x", "t", "u", "r", "e", " ", "h", "e", "i", "g", "h", "t">>,
        <<"l", "a", "m", "p", " ", "h", "e", "i", "g", "h", "t">>,
        <<"h", "_", "m">> >>],
    [canonical |-> <<"l", "u", "m", "i", "n", "o", "u", "s", "_", "e", "f", "f", "i", "c", "a", "c", "y", "_", "l", "m", "_", "p", "e", "r", "_", "w">>,
     aliases |-> <<
        <<"l", "m", "/", "w">>,
        <<"e", "f", "f", "i", "c", "a", "c", "y">>,
        <<"η">>,
        <<"e", "t", "a">>,
        <<"l", "u", "m", "i", "n", "o", "u", "s", " ", "e", "f", "f", "i", "c", "i", "e", "n", "c", "y">>,
        <<"e", "f", "f", "i", "c", "i", "e", "n", "c", "y">>,
        <<"l", "u", "m", "i", "n", "o", "u", "s", "_", "e", "f", "f", "i", "c", "a", "c", "y">>,
        <<"l", "i", "g", "h", "t", "_", "e", "f", "f", "i", "c", "i", "e", "n", "c", "y">>,
        <<"l", "m", "_", "p", "e", "r", "_", "w">>,
        <<"l", "u", "m", "e", "n", "s", "_", "p", "e", "r", "_", "w", "a", "t", "t">> >>],
    [canonical |-> <<"E", "m", "_", "w", "a", "l", "l", "_", "l", "x">>,
     aliases |-> <<
        <<"e", "m", "_", "w", "a", "l", "l", "_", "l", "x">>,
        <<"w", "a", "l", "l", " ", "l", "u", "x">>,
        <<"w", "a", "l", "l", " ", "i", "l", "l", "u", "m", "i", "n", "a", "n", "c", "e">>,
        <<"w", "a", "l", "l", " ", "l", "i", "g", "h", "t", "i", "n", "g">>,
        <<"w", "a", "l", "l", "_", "i", "l", "l", "u", "m", "i", "n", "a", "n", "c", "e">>,
        <<"e", "m", "_", "w", "a", "l", "l">>,
        <<"w", "a", "l", "l", "_", "l", "u", "x">> >>],
    [canonical |-> <<"E", "m", "_", "c", "e", "i", "l", "i", "n", "g", "_", "l", "x">>,
     aliases |-> <<
        <<"e", "m", "_", "c", "e", "i", "l", "i", "n", "g", "_", "l", "x">>,
        <<"c", "e", "i", "l", "i", "n", "g", " ", "l", "u", "x">>,
        <<"c", "e", "i", "l", "i", "n", "g", " ", "i", "l", "l", "u", "m", "i", "n", "a", "n", "c", "e">>,
        <<"c", "e", "i", "l", "i", "n", "g", " ", "l", "i", "g", "h", "t", "i", "n", "g">>,
        <<"c", "e", "i", "l", "i", "n", "g", "_", "i", "l", "l", "u", "m", "i", "n", "a", "n", "c", "e">>,
        <<"e", "m", "_", "c", "e", "i", "l", "i", "n", "g">>,
        <<"c", "e", "i", "l", "i", "n", "g", "_", "l", "u", "x">> >>],
    [canonical |-> <<"s", "p", "e", "c", "i", "f", "i", "c", "_", "r", "e", "q", "u", "i", "r", "e", "m", "e", "n", "t", "s">>,
     aliases |-> <<
        <<"s", "p", "e", "c", "i", "f", "i", "c", " ", "r", "e", "q", "u", "i", "r", "e", "m", "e", "n", "t", "s">>,
        <<"r", "e", "q", "u", "i", "r", "e", "m", "e", "n", "t", "s">>,
        <<"n", "o", "t", "e", "s">>,
        <<"c", "o", "m", "m", "e", "n", "t", "s">>,
        <<"a", "d", "d", "i", "t", "i", "o", "n", "a", "l", " ", "r", "e", "q", "u", "i", "r", "e", "m", "e", "n", "t", "s">>,
        <<"s", "p", "e", "c", "i", "a", "l", " ", "r", "e", "q", "u", "i", "r", "e", "m", "e", "n", "t", "s">>,
        <<"r", "e", "m", "a", "r", "k", "s">>,
        <<"s", "p", "e", "c", "i", "f", "i", "c", "_", "r", "e", "q", "s">>,
        <<"a", "d", "d", "i", "t", "i", "o", "n", "a", "l", "_", "n", "o", "t", "e", "s">> >>],
    [canonical |-> <<"r", "e", "f", "_", "n", "o">>,
     aliases |-> <<
        <<"r", "e", "f", "_", "n", "o">>,
        <<"r", "e", "f", "e", "r", "e", "n", "c", "e">>,
        <<"r", "e", "f">>,
        <<"r", "e", "f", "e", "r", "e", "n", "c", "e", " ", "n", "u", "m", "b", "e", "r">>,
        <<"s", "t", "a", "n", "d", "a", "r", "d", " ", "r", "e", "f">>,
        <<"t", "a", "b", "l", "e", " ", "r", "e", "f">>,
        <<"c", "l", "a", "u", "s", "e", " ", "r", "e", "f">>,
        <<"r", "e", "f", "e", "r", "e", "n", "c", "e", "_", "n", "o">>,
        <<"s", "t", "a", "n", "d", "a", "r", "d", "_", "r", "e", "f", "e", "r", "e", "n", "c", "e">> >>],
    [canonical |-> <<"c", "a", "t", "e", "g", "o", "r", "y">>,
     aliases |-> <<
        <<"c", "a", "t", "e", "g", "o", "r", "y">>,
        <<"t", "y", "p", "e">>,
        <<"c", "l", "a", "s", "s", "i", "f", "i", "c", "a", "t", "i", "o", "n">>,
        <<"g", "r", "o", "u", "p">>,
        <<"a", "r", "e", "a", " ", "t", "y", "p", "e">>,
        <<"s", "p", "a", "c", "e", " ", "t", "y", "p", "e">>,
        <<"z", "o", "n", "e", " ", "t", "y", "p", "e">>,
        <<"c", "a", "t", "e", "g", "o", "r", "y", "_", "t", "y", "p", "e">> >>],
    [canonical |-> <<"t", "a", "s", "k", "_", "o", "r", "_", "a", "c", "t", "i", "v", "i", "t", "y">>,
     aliases |-> <<
        <<"t", "a", "s", "k", "_", "o", "r", "_", "a", "c", "t", "i", "v", "i", "t", "y">>,
        <<"t", "a", "s", "k">>,
        <<"a", "c", "t", "i", "v", "i", "t", "y">>,
        <<"d", "e", "s", "c", "r", "i", "p", "t", "i", "o", "n">>,
        <<"t", "a", "s", "k", " ", "d", "e", "s", "c", "r", "i", "p", "t", "i", "o", "n">>,
        <<"a", "c", "t", "i", "v", "i", "t", "y", " ", "d", "e", "s", "c", "r", "i", "p", "t", "i", "o", "n">>,
        <<"s", "p", "a", "c", "e", " ", "d", "e", "s", "c", "r", "i", "p", "t", "i", "o", "n">>,
        <<"t", "a", "s", "k", "_", "d", "e", "s", "c", "r", "i", "p", "t", "i", "o", "n">>,
        <<"a", "c", "t", "i", "v", "i", "t", "y", "_", "d", "e", "s", "c", "r", "i", "p", "t", "i", "o", "n">>,
        <<"s", "p", "a", "c", "e", "_", "t", "y", "p", "e">> >>] >>

Whitespace == {" ", "\t", "\n"}

\* s.strip()
RECURSIVE lstrip(_)
lstrip(s) == IF s # <<>> /\ Head(s) \in Whitespace THEN lstrip(Tail(s)) ELSE s

RECURSIVE rstrip(_)
rstrip(s) ==
    IF s # <<>> /\ s[Len(s)] \in Whitespace THEN rstrip(SubSeq(s, 1, Len(s) - 1)) ELSE s

strip(s) == rstrip(lstrip(s))

\* the characters of the class [_\-\s]
Separators == {"_", "-"} \cup Whitespace

\* re.sub(r'[_\-\s]+', '_', s): every run of separators becomes one underscore
RECURSIVE clean(_)
clean(s) ==
    IF s = <<>> THEN <<>>
    ELSE IF Head(s) \in Separators
         THEN IF Len(s) > 1 /\ s[2] \in Separators
              THEN clean(Tail(s))
              ELSE <<"_">> \o clean(Tail(s))
         ELSE <<Head(s)>> \o clean(Tail(s))

\* mutant: an alias matches when the key contains it
ExactMatch_Contains(key_lower, alias) == Contains(lower(alias), key_lower)

\* key_lower in [a.lower() for a in aliases], for one alias
ExactMatch(key_lower, alias) == key_lower = lower(alias)

\* key_clean == alias_clean, for one alias
FuzzyMatch(key_clean, alias) == key_clean = clean(lower(alias))

\* the canonical names whose alias list has an exact match, by position
ExactRows(key_lower) ==
    {i \in 1..Len(ALIASES) :
        \E j \in 1..Len(ALIASES[i].aliases) : ExactMatch(key_lower, ALIASES[i].aliases[j])}

\* the canonical names whose alias list has a fuzzy match, by position
FuzzyRows(key_clean) ==
    {i \in 1..Len(ALIASES) :
        \E j \in 1..Len(ALIASES[i].aliases) : FuzzyMatch(key_clean, ALIASES[i].aliases[j])}

\* the row a for loop over ALIASES.items() returns from first
FirstRow(rows) == CHOOSE i \in rows : \A j \in rows : i <= j

\* normalize_key(key)
normalize_key(key) ==
    IF ~Truthy(key) THEN key
    ELSE LET key_lower == lower(strip(key.str))
             exact == ExactRows(key_lower)
             fuzzy == FuzzyRows(clean(key_lower))
         IN  IF exact # {} THEN Str(ALIASES[FirstRow(exact)].canonical)
             ELSE IF fuzzy # {} THEN Str(ALIASES[FirstRow(fuzzy)].canonical)
             ELSE key

(* normalize_key on the names of the table and their spellings *)

Capitals ==
    {"A", "B", "C", "D", "E", "F", "G", "H", "I", "J", "K", "L", "M", "N", "O", "P", "Q",
     "R", "S", "T", "U", "V", "W", "X", "Y", "Z"}

UpperChar(c) ==
    IF \E u \in Capitals : LowerChar(u) = c
    THEN CHOOSE u \in Capitals : LowerChar(u) = c
    ELSE c

upper(s) == [i \in 1..Len(s) |-> UpperChar(s[i])]

\* s with every separator written as sep
Respelled(s, sep) ==
    LET Piece(i) == IF s[i] \in Separators THEN sep ELSE <<s[i]>>
        F[i \in 0..Len(s)] == IF i = 0 THEN <<>> ELSE F[i - 1] \o Piece(i)
    IN  F[Len(s)]

CanonicalNames == {ALIASES[i].canonical : i \in 1..Len(ALIASES)}

AliasNames ==
    UNION {{ALIASES[i].aliases[j] : j \in 1..Len(ALIASES[i].aliases)} : i \in 1..Len(ALIASES)}

Spellings(s) ==
    {s, upper(s), <<" ">> \o s \o <<"\t", "\n">>, Respelled(s, <<"-">>),
     Respelled(s, <<" ", "_">>), Respelled(s, <<>>)}

OtherNames ==
    {<<>>, <<" ">>, <<"_">>, <<"f", "o", "o">>, <<"l", "u", "x", "e", "s">>,
     <<"E", "m", "_", "r", "_", "l", "x", "2">>}

KeyPool ==
    {Str(k) : k \in UNION {Spellings(s) : s \in CanonicalNames \cup AliasNames} \cup OtherNames}

InitNormalize ==
    /\ pc = "normalize_key"
    /\ raw_key \in KeyPool
    /\ normalized_key = Idle /\ record = Idle /\ normalized = Idle
    /\ file_data = Idle /\ find_data = Idle /\ find_type = Idle /\ find_result = Idle
    /\ variant = "web"
    /\ standards_data = Idle /\ parameter_mapping = Idle /\ report_data = Idle
    /\ results = Idle
    /\ room_index = 0
    /\ utilisation_profile = Idle /\ room = Idle /\ standard = Idle /\ lighting_setup = Idle
    /\ check_result = Idle /\ checks = Idle
    /\ now = 0 /\ other = Idle

\* a call normalize_key(raw_key)
NormalizeKey ==
    /\ pc = "normalize_key"
    /\ normalized_key' = normalize_key(raw_key)
    /\ pc' = "normalized"
    /\ UNCHANGED <<raw_key, variant, standards_data, parameter_mapping, report_data, results,
                   room_index, utilisation_profile, room, standard, lighting_setup,
                   check_result, checks, now, other, record, normalized, file_data, find_data, find_type, find_result>>

\* a second call, on the key the first call returned
NormalizeAgain ==
    /\ pc = "normalized"
    /\ raw_key' = normalized_key
    /\ normalized_key' = normalize_key(normalized_key)
    /\ pc' = "normalized_again"
    /\ UNCHANGED <<variant, standards_data, parameter_mapping, report_data, results,
                   room_index, utilisation_profile, room, standard, lighting_setup,
                   check_result, checks, now, other, record, normalized, file_data, find_data, find_type, find_result>>

NextNormalize == NormalizeKey \/ NormalizeAgain

SpecNormalize == InitNormalize /\ [][NextNormalize]_vars

\* some alias of the table equals the key, lower-cased and stripped, as it
\* stands or with its runs of separators written as one underscore
Matched(key) ==
    \E a \in AliasNames :
        \/ lower(a) = lower(strip(key.str))
        \/ clean(lower(a)) = clean(lower(strip(key.str)))

\* C20: normalize_key is idempotent, normalize_key(normalize_key(x)) =
\* normalize_key(x) for every string x; every canonical name of ALIASES
\* normalizes to itself, and an unmatched input is returned unchanged.
C20_Idempotent ==
    /\ pc = "normalized_again" => normalized_key = raw_key
    /\ (pc = "normalized" /\ raw_key.str \in CanonicalNames) => normalized_key = raw_key
    /\ (pc = "normalized" /\ ~Matched(raw_key)) => normalized_key = raw_key

\* the second call has returned on a canonical name that is no alias of
\* itself, reached from one of its aliases
C20_Witness ==
    /\ pc = "normalized_again"
    /\ raw_key = Str(<<"p", "o", "w", "e", "r", "_", "w">>)
    /\ normalized_key = raw_key
    /\ ~Matched(raw_key)

\* the key trimmed, lower-cased, with every run of separators as one
Collapsed(k) == clean(lower(strip(k)))

\* C21: two keys that are equal after trimming, lower-casing and collapsing
\* every run of spaces, underscores and hyphens normalize to the same
\* canonical name when one of them normalizes to a canonical name.
C21_SeparatorInsensitive ==
    (pc = "normalized" /\ IsStr(normalized_key) /\ normalized_key.str \in CanonicalNames)
        => \A k \in Spellings(raw_key.str) :
               Collapsed(k) = Collapsed(raw_key.str) => normalize_key(Str(k)) = normalized_key

----------------------------------------------------------------------------
(* alias_normalizer: normalize_record *)

\* mutant: a key already present keeps its value
SetItem_KeepFirst(d, key, value) ==
    IF HasKey(d, key) THEN d ELSE Dict(Append(d.dict, [k |-> key, v |-> value]))

\* d[key] = value on a copy of d: a present key keeps its place
SetItem(d, key, value) ==
    IF HasKey(d, key)
    THEN Dict([i \in 1..Len(d.dict) |->
                  IF d.dict[i].k = key THEN [k |-> key, v |-> value] ELSE d.dict[i]])
    ELSE Dict(Append(d.dict, [k |-> key, v |-> value]))

\* the loop over record.items() from item i on
RECURSIVE NormalizeLoop(_, _, _)
NormalizeLoop(rec, i, acc) ==
    IF i > Len(rec.dict) THEN acc
    ELSE NormalizeLoop(rec, i + 1,
                       SetItem(acc, normalize_key(Str(rec.dict[i].k)).str, rec.dict[i].v))

\* normalize_record(record)
normalize_record(rec) == NormalizeLoop(rec, 1, EmptyDict)

MaxFields == 2

RecordKeys ==
    {<<"l", "u", "x">>, <<"E", "m", "_", "r", "_", "l", "x">>, <<"C", "R", "I">>,
     <<"R", "a">>, <<"f", "o", "o">>}

RecordValues == {Num(300), Num(80), Null}

\* records of up to MaxFields fields with distinct keys
RecordPool ==
    {Dict(s) : s \in {t \in UNION {[1..n -> [k : RecordKeys, v : RecordValues]] :
                                        n \in 0..MaxFields} :
                          \A i, j \in 1..Len(t) : t[i].k = t[j].k => i = j}}

InitRecord ==
    /\ pc = "normalize_record"
    /\ record \in RecordPool
    /\ normalized = Idle /\ file_data = Idle /\ find_data = Idle /\ find_type = Idle /\ find_result = Idle
    /\ raw_key = Idle /\ normalized_key = Idle
    /\ variant = "web"
    /\ standards_data = Idle /\ parameter_mapping = Idle /\ report_data = Idle
    /\ results = Idle
    /\ room_index = 0
    /\ utilisation_profile = Idle /\ room = Idle /\ standard = Idle /\ lighting_setup = Idle
    /\ check_result = Idle /\ checks = Idle
    /\ now = 0 /\ other = Idle

\* a call normalize_record(record)
NormalizeRecord ==
    /\ pc = "normalize_record"
    /\ normalized' = normalize_record(record)
    /\ pc' = "record_normalized"
    /\ UNCHANGED <<record, raw_key, normalized_key, variant, standards_data, parameter_mapping,
                   report_data, results, room_index, utilisation_profile, room, standard,
                   lighting_setup, check_result, checks, now, other, file_data, find_data, find_type, find_result>>

NextRecord == NormalizeRecord

SpecRecord == InitRecord /\ [][NextRecord]_vars

KeysOf(d) == {d.dict[i].k : i \in 1..Len(d.dict)}

\* the positions of the input whose key normalizes to nk
Sources(nk) == {i \in 1..Len(record.dict) : normalize_key(Str(record.dict[i].k)).str = nk}

C22_Image ==
    pc = "record_normalized" =>
        /\ IsDict(normalized)
        /\ KeysOf(normalized) = {normalize_key(Str(k)).str : k \in KeysOf(record)}
        /\ \A i, j \in 1..Len(normalized.dict) :
               normalized.dict[i].k = normalized.dict[j].k => i = j
        /\ \A nk \in KeysOf(normalized) :
               Item(normalized, nk) =
                   record.dict[CHOOSE i \in Sources(nk) : \A j \in Sources(nk) : j <= i].v

\* C22: normalize_record returns a new mapping whose keys are the images of
\* the input keys under normalize_key, with the input values; of two keys
\* with the same image the later one's value is kept; the input mapping is
\* not modified.
C22_NormalizeRecord == [](C22_Image) /\ [][record' = record]_vars

\* two keys of the record normalize to one canonical key, with different
\* values, and the later value is the one returned
C22_Witness ==
    /\ pc = "record_normalized"
    /\ Len(record.dict) = 2
    /\ Len(normalized.dict) = 1
    /\ record.dict[1].v # record.dict[2].v
    /\ normalized.dict[1].v = record.dict[2].v
    /\ normalized.dict[1].k # record.dict[2].k

----------------------------------------------------------------------------
(* alias_normalizer: validate_lighting_values *)

k_CCT == <<"C", "C", "T">>
k_validation_issues == <<"v", "a", "l", "i", "d", "a", "t", "i", "o", "n", "_", "i", "s", "s", "u", "e", "s">>
k_needs_review == <<"n", "e", "e", "d", "s", "_", "r", "e", "v", "i", "e", "w">>

\* float(v): the number itself, 1 or 0 for a boolean, an exception otherwise
float(v) ==
    CASE IsNum(v) -> v
      [] DOMAIN v = {"bool"} -> Num(IF v.bool THEN 1 ELSE 0)
      [] IsStr(v) -> Raised("ValueError")
      [] OTHER -> Raised("TypeError")

\* the range tests of the five fields
RaOutOfRange(x) == x > 100
UoOutOfRange(x) == x > 1
\* mutant: the limits themselves are out of range
EmOutOfRange_Exclusive(x) == x <= 20 \/ x >= 20000
EmOutOfRange(x) == x < 20 \/ x > 20000
RuglOutOfRange(x) == x < 10 \/ x > 40
CctOutOfRange(x) == x < 2000 \/ x > 10000

OutOfRange(field, x) ==
    CASE field = k_Ra -> RaOutOfRange(x)
      [] field = k_Uo -> UoOutOfRange(x)
      [] field = k_Em_r_lx -> EmOutOfRange(x)
      [] field = k_RUGL -> RuglOutOfRange(x)
      [] field = k_CCT -> CctOutOfRange(x)

\* the fields in the order validate_lighting_values tests them
validated_fields == <<k_Ra, k_Uo, k_Em_r_lx, k_RUGL, k_CCT>>

\* the message of a violation: the field and the value that was out of range
Issue(field, x) == [field |-> field, value |-> x]

\* one of the five blocks: st holds the record and the issues so far
FieldBlock(st, field) ==
    IF IsRaised(st) THEN st
    ELSE IF IsNull(Get(st.record, field, Null)) THEN st
    ELSE LET x == float(Item(st.record, field))
         IN  IF IsRaised(x) THEN x
             ELSE IF OutOfRange(field, x.num)
                  THEN [record |-> SetItem(st.record, field, Null),
                        validation_issues |-> Append(st.validation_issues, Issue(field, x.num))]
                  ELSE st

RECURSIVE FieldBlocks(_, _)
FieldBlocks(st, i) ==
    IF i > Len(validated_fields) THEN st
    ELSE FieldBlocks(FieldBlock(st, validated_fields[i]), i + 1)

\* validate_lighting_values(record): the record after the call, which is
\* also the value returned, or the exception raised
validate_lighting_values(rec) ==
    LET st == FieldBlocks([record |-> rec, validation_issues |-> <<>>], 1)
    IN  IF IsRaised(st) THEN st
        ELSE IF st.validation_issues # <<>>
             THEN SetItem(SetItem(st.record, k_validation_issues, List(st.validation_issues)),
                          k_needs_review, Bool(TRUE))
             ELSE SetItem(st.record, k_needs_review, Bool(FALSE))

\* records with the five fields absent, null, at their limits and beyond
ValidatedPool ==
    { MkDict(<<It(k_task_or_activity, Str(p_Office_work)), It(k_Ra, a), It(k_Uo, o),
               It(k_Em_r_lx, e), It(k_RUGL, g), It(k_CCT, c)>>) :
        a \in {NoKey, Null, Num(100), Num(101)},
        o \in {NoKey, Num(1), Num(2)},
        e \in {NoKey, Num(19), Num(20), Num(20000), Num(20001)},
        g \in {NoKey, Num(9), Num(10), Num(40), Num(41)},
        c \in {NoKey, Num(1999), Num(2000), Num(10000), Num(10001)} }

InitValidate ==
    /\ pc = "validate_lighting_values"
    /\ record \in ValidatedPool
    /\ normalized = Idle /\ file_data = Idle /\ find_data = Idle /\ find_type = Idle /\ find_result = Idle
    /\ raw_key = Idle /\ normalized_key = Idle
    /\ variant = "web"
    /\ standards_data = Idle /\ parameter_mapping = Idle /\ report_data = Idle
    /\ results = Idle
    /\ room_index = 0
    /\ utilisation_profile = Idle /\ room = Idle /\ standard = Idle /\ lighting_setup = Idle
    /\ check_result = Idle /\ checks = Idle
    /\ now = 0 /\ other = Idle

\* a call validate_lighting_values(record), the first or a later one
ValidateLightingValues ==
    /\ pc \in {"validate_lighting_values", "validated"}
    /\ IF IsRaised(validate_lighting_values(record))
       THEN pc' = "raised" /\ UNCHANGED record
       ELSE pc' = "validated" /\ record' = validate_lighting_values(record)
    /\ UNCHANGED <<normalized, raw_key, normalized_key, variant, standards_data,
                   parameter_mapping, report_data, results, room_index, utilisation_profile,
                   room, standard, lighting_setup, check_result, checks, now, other, file_data, find_data, find_type, find_result>>

NextValidate == ValidateLightingValues

SpecValidate == InitValidate /\ [][NextValidate]_vars

\* the limits as the claim states them: lo..hi is kept
Limits(field) ==
    CASE field = k_Ra -> [lo |-> -1000000, hi |-> 100]
      [] field = k_Uo -> [lo |-> -1000000, hi |-> 1]
      [] field = k_Em_r_lx -> [lo |-> 20, hi |-> 20000]
      [] field = k_RUGL -> [lo |-> 10, hi |-> 40]
      [] field = k_CCT -> [lo |-> 2000, hi |-> 10000]

RangedFields == {k_Ra, k_Uo, k_Em_r_lx, k_RUGL, k_CCT}

\* the fields of r that hold a number outside their limits
Violations(r) ==
    {f \in RangedFields :
        /\ HasKey(r, f) /\ IsNum(Item(r, f))
        /\ (Item(r, f).num < Limits(f).lo \/ Item(r, f).num > Limits(f).hi)}

\* the first call on r leaves s
ValidationRule(r, s) ==
    /\ IsDict(s)
    /\ KeysOf(s) = KeysOf(r) \cup {k_needs_review}
                       \cup (IF Violations(r) # {} THEN {k_validation_issues} ELSE {})
    /\ \A f \in KeysOf(r) :
           Item(s, f) = IF f \in Violations(r) THEN Null ELSE Item(r, f)
    /\ Item(s, k_needs_review) = Bool(Violations(r) # {})
    /\ Violations(r) # {} =>
           /\ Len(Item(s, k_validation_issues).list) = Cardinality(Violations(r))
           /\ \A f \in Violations(r) :
                  \E i \in 1..Cardinality(Violations(r)) :
                      Item(s, k_validation_issues).list[i].field = f

\* C23: on a record with numeric fields validate_lighting_values nulls Ra
\* iff Ra > 100, Uo iff Uo > 1, Em_r_lx iff outside [20, 20000], RUGL iff
\* outside [10, 40], CCT iff outside [2000, 10000], leaves every other field
\* unchanged, records one message per violation, sets needs_review to
\* whether there was a violation, and raises nothing.
C23_RangeValidation ==
    [][pc = "validate_lighting_values" => (pc' = "validated" /\ ValidationRule(record, record'))]_vars

\* a first call has nulled two fields and kept fields at their limits
C23_Witness ==
    /\ pc = "validated"
    /\ Item(record, k_needs_review) = Bool(TRUE)
    /\ Len(Item(record, k_validation_issues).list) = 2
    /\ HasKey(record, k_Ra) /\ IsNull(Item(record, k_Ra))
    /\ HasKey(record, k_CCT) /\ IsNull(Item(record, k_CCT))
    /\ Get(record, k_Em_r_lx, Null) = Num(20000)
    /\ Get(record, k_RUGL, Null) = Num(10)
    /\ Get(record, k_Uo, Null) = Num(1)

\* C30: after one or more validate_lighting_values calls on a record,
\* needs_review is true exactly when the record carries a non-empty
\* validation_issues list, and a further call changes nothing.
C30_ReviewFlagConsistent ==
    /\ [](pc = "validated" =>
            (Item(record, k_needs_review) = Bool(TRUE)
                <=> (HasKey(record, k_validation_issues)
                       /\ Item(record, k_validation_issues).list # <<>>)))
    /\ [][pc = "validated" => record' = record]_vars

----------------------------------------------------------------------------
(* The catalog loader of the web-compliance checker: _load_standards *)

\* _load_standards: data is what json.load returned, or the exception that
\* open or json.load raised
load_standards(data) ==
    IF IsRaised(data) THEN Catalog(<<>>)
    ELSE IF IsList(data) THEN Dict(<<It(k_standards, data)>>)
    ELSE IF IsDict(data) /\ HasKey(data, k_standards) THEN data
    ELSE Catalog(<<>>)

OfficeRecord ==
    Dict(<<It(k_task_or_activity, Str(p_Office_work)), It(k_Em_r_lx, Num(500)),
           It(k_Uo, Num(60))>>)

StoreRecord == Dict(<<It(k_task_or_activity, Str(p_Storage_areas)), It(k_Em_r_lx, Num(100))>>)

\* contents of the standards file
FilePool ==
    { Raised("FileNotFoundError"), Raised("JSONDecodeError"),
      List(<<>>), List(<<OfficeRecord>>), List(<<StoreRecord, OfficeRecord>>),
      List(<<OfficeRecord, Num(1)>>), List(<<Num(1), OfficeRecord>>),
      Dict(<<It(k_standards, List(<<OfficeRecord>>))>>),
      Dict(<<It(k_metadata, EmptyDict), It(k_standards, List(<<StoreRecord>>))>>),
      Dict(<<It(k_standards, Null)>>),
      Dict(<<It(k_standards, Num(5))>>),
      Dict(<<It(k_standards, Str(p_Office_work))>>),
      Dict(<<It(k_standards, Dict(<<It(k_name, Num(1))>>))>>),
      Dict(<<It(k_standards, EmptyDict)>>),
      Dict(<<It(k_metadata, EmptyDict)>>), EmptyDict,
      Num(5), Null, Str(p_Office_work) }

LoadProfiles ==
    {Str(p_Office_work), Str(p_Storage_areas), Str(p_General_lighting), Str(kw_factory),
     Str(<<>>)}

InitLoad ==
    /\ pc = "_load_standards"
    /\ file_data \in FilePool
    /\ standards_data = Idle
    /\ utilisation_profile \in LoadProfiles
    /\ standard = Idle
    /\ variant = "web" /\ parameter_mapping = Idle /\ report_data = Idle /\ results = Idle
    /\ room_index = 0 /\ lighting_setup = Idle /\ check_result = Idle
    /\ checks = Idle /\ room = Idle
    /\ now = 0 /\ other = Idle /\ raw_key = Idle /\ normalized_key = Idle
    /\ record = Idle /\ normalized = Idle
    /\ find_data = Idle /\ find_type = Idle /\ find_result = Idle

\* the constructor's call self.standards_data = self._load_standards()
LoadStandards ==
    /\ pc = "_load_standards"
    /\ standards_data' = load_standards(file_data)
    /\ pc' = "find_matching_standard"
    /\ UNCHANGED <<variant, parameter_mapping, report_data, results, room_index,
                   utilisation_profile, room, standard, lighting_setup, check_result, checks,
                   now, other, raw_key, normalized_key, record, normalized, file_data, find_data, find_type, find_result>>

NextLoad == LoadStandards \/ FindMatchingStandard

SpecLoad == InitLoad /\ [][NextLoad]_vars

\* C24: for every content of the standards file _load_standards returns a
\* mapping whose 'standards' value is a list of records: a bare list is
\* wrapped, a mapping with a 'standards' key is returned with that list, any
\* other shape and any read or parse failure gives an empty list; so
\* find_matching_standard can always iterate the loaded catalog.
C24_LoaderShape ==
    /\ pc # "_load_standards" =>
          /\ IsDict(standards_data) /\ HasKey(standards_data, k_standards)
          /\ IsList(Item(standards_data, k_standards))
          /\ \A i \in 1..Len(Item(standards_data, k_standards).list) :
                 IsDict(Item(standards_data, k_standards).list[i])
          /\ IsList(file_data) => Item(standards_data, k_standards) = file_data
          /\ (IsDict(file_data) /\ HasKey(file_data, k_standards)) => standards_data = file_data
          /\ (~IsList(file_data) /\ ~(IsDict(file_data) /\ HasKey(file_data, k_standards)))
                 => standards_data = Catalog(<<>>)
    /\ pc = "returned" => ~IsRaised(standard)

----------------------------------------------------------------------------
(* _find_parameter_value of the web-compliance checker called on its own *)

a_Lux == <<"L", "u", "x">>
a_Eavg == <<"E", "a", "v", "g">>

\* alias files: two orders of the aliases of average_lux, no aliases, no
\* 'parameters' section, and the empty mapping
FindMappings ==
    { Dict(<<It(k_parameters, Dict(<<It(k_average_lux, List(<<Str(a_Lux), Str(a_Eavg)>>))>>))>>),
      Dict(<<It(k_parameters, Dict(<<It(k_average_lux, List(<<Str(a_Eavg), Str(a_Lux)>>))>>))>>),
      Dict(<<It(k_places, EmptyDict), It(k_parameters, EmptyDict)>>),
      Dict(<<It(k_places, EmptyDict)>>),
      EmptyDict }

FindKeys ==
    {k_average_lux, a_Lux, <<"l", "u", "x">>, <<"l", "u", "x", "_", "l", "e", "v", "e", "l">>,
     a_Eavg, <<"E", "A", "V", "G">>, k_uniformity}

FindValues == {Num(400), Null}

\* data mappings of up to MaxFields keys
FindDataPool ==
    {Dict(s) : s \in {t \in UNION {[1..n -> [k : FindKeys, v : FindValues]] : n \in 0..MaxFields} :
                          \A i, j \in 1..Len(t) : t[i].k = t[j].k => i = j}}

InitFind ==
    /\ pc = "_find_parameter_value"
    /\ variant = "web"
    /\ parameter_mapping \in FindMappings
    /\ find_data \in FindDataPool
    /\ find_type = k_average_lux
    /\ find_result = Idle
    /\ standards_data = Idle /\ report_data = Idle /\ results = Idle
    /\ room_index = 0
    /\ utilisation_profile = Idle /\ room = Idle /\ standard = Idle /\ lighting_setup = Idle
    /\ check_result = Idle /\ checks = Idle
    /\ now = 0 /\ other = Idle /\ raw_key = Idle /\ normalized_key = Idle
    /\ record = Idle /\ normalized = Idle /\ file_data = Idle

\* a call self._find_parameter_value(find_data, find_type)
FindParameterValue ==
    /\ pc = "_find_parameter_value"
    /\ find_result' = find_parameter_value(variant, parameter_mapping, find_data, find_type)
    /\ pc' = "found"
    /\ UNCHANGED <<variant, standards_data, parameter_mapping, report_data, results, room_index,
                   utilisation_profile, room, standard, lighting_setup, check_result, checks,
                   now, other, raw_key, normalized_key, record, normalized, file_data,
                   find_data, find_type>>

NextFind == FindParameterValue

SpecFind == InitFind /\ [][NextFind]_vars

\* the registered aliases of the parameter, none when there is no section
RegisteredAliases ==
    IF IsDict(parameter_mapping) /\ HasKey(parameter_mapping, k_parameters)
    THEN Get(Item(parameter_mapping, k_parameters), find_type, List(<<>>)).list
    ELSE <<>>

\* the positions of the non-null keys of the data
NonNull == {j \in 1..Len(find_data.dict) : find_data.dict[j].v # Null}

ExactAt(a) == {j \in NonNull : find_data.dict[j].k = a}
NoCaseAt(a) == {j \in NonNull : lower(find_data.dict[j].k) = lower(a)}
PartAt(a) == {j \in NonNull : Contains(lower(a), lower(find_data.dict[j].k))}

\* the key accepted for alias a: exact, else case-insensitive, else substring
AcceptedAt(a) ==
    IF ExactAt(a) # {} THEN Min(ExactAt(a))
    ELSE IF NoCaseAt(a) # {} THEN Min(NoCaseAt(a))
    ELSE Min(PartAt(a))

\* the aliases, by position, that match some non-null key
MatchingAliases == {i \in 1..Len(RegisteredAliases) : PartAt(RegisteredAliases[i].str) # {}}

\* C25: _find_parameter_value of the web-compliance checker returns the
\* value under the literal parameter name when that key holds a non-null
\* value; otherwise the first alias in registration order that matches a
\* non-null key decides, by exact, then case-insensitive, then substring
\* match; null-valued keys are never returned and found = false is returned
\* only when no alias matches any non-null key.
C25_FindParameterValue ==
    pc = "found" =>
        IF ExactAt(find_type) # {}
        THEN find_result = Found(find_type, Item(find_data, find_type))
        ELSE IF MatchingAliases # {}
             THEN LET j == AcceptedAt(RegisteredAliases[Min(MatchingAliases)].str)
                  IN  find_result = Found(find_data.dict[j].k, find_data.dict[j].v)
             ELSE find_result = NotFound

----------------------------------------------------------------------------
(* The scene the final-project checker infers a room's profile from *)

\* the scene at the position of the room under way
CorrelatedScene == ScenesOf(report_data)[room_index]

\* the room under way declares no profile and has a scene at its position
BlankWithScene ==
    /\ pc = "room"
    /\ variant = "final"
    /\ room_index <= Len(RoomsOf(report_data).list)
    /\ IsDict(RoomsOf(report_data).list[room_index])
    /\ ~Truthy(Get(RoomsOf(report_data).list[room_index], k_utilisation_profile, Str(<<>>)))
    /\ IsList(Get(report_data, k_scenes, List(<<>>)))
    /\ room_index <= Len(ScenesOf(report_data))
    /\ IsDict(CorrelatedScene)
    /\ IsStr(Get(CorrelatedScene, k_scene_name, Str(<<>>)))

\* C26: in the final-project checker a room at index i with a blank declared
\* profile and a scene at its position gets its profile from that scene,
\* scenes[i]: 'General assembly work' if the scene's name contains factory,
\* industrial, warehouse or manufacturing, otherwise the scene's own
\* utilisation_profile when that is non-blank.
C26_CorrelatedScene ==
    [][BlankWithScene =>
          IF AnyIn(scene_keywords_final, lower(Get(CorrelatedScene, k_scene_name, Str(<<>>)).str))
          THEN utilisation_profile' = Str(p_General_assembly_work)
          ELSE Truthy(Get(CorrelatedScene, k_utilisation_profile, Str(<<>>)))
                  => utilisation_profile' = Get(CorrelatedScene, k_utilisation_profile, Str(<<>>))]_vars

----------------------------------------------------------------------------
(* The entries of checks against the rooms of the report *)

\* entry k of checks was built from room k
EntryOfRoom(k) ==
    /\ results.checks[k].room = Get(RoomsOf(report_data).list[k], k_name, Str(s_Unknown))
    /\ results.checks[k].status \in {"PASS", "FAIL", "NO_STANDARD_FOUND"}

C27_Entries ==
    /\ (pc \in {"room", "find_standard", "select_source", "evaluate"} \/
        (pc = "returned" /\ results.error = NoKey))
          => \A k \in 1..Len(results.checks) : EntryOfRoom(k)
    /\ pc \in {"find_standard", "select_source", "evaluate"}
          => Len(results.checks) = room_index - 1
    /\ (pc = "returned" /\ results.error = NoKey)
          => Len(results.checks) = Len(RoomsOf(report_data).list)

\* the step that settles a room's profile never moves on to the next room
C27_NoSkip == pc = "room" => pc' # "room"

\* C27: for every report with at least one room that check_compliance
\* processes without an exception, checks holds exactly one entry per room,
\* in room order, entry k built from room k; the branch that skips a room
\* without profile is never taken.
C27_OneEntryPerRoom == [](C27_Entries) /\ [][C27_NoSkip]_vars

\* two different rooms, the first without matching standard, the second
\* evaluated, each with its entry
C27_Witness ==
    /\ pc = "returned" /\ results.error = NoKey
    /\ Len(results.checks) = 2
    /\ RoomsOf(report_data).list[1] # RoomsOf(report_data).list[2]
    /\ results.checks[1].room # results.checks[2].room
    /\ results.checks[1].status = "NO_STANDARD_FOUND"
    /\ results.checks[2].status \in {"PASS", "FAIL"}
    /\ EntryOfRoom(1) /\ EntryOfRoom(2)

\* C28: every overall_compliance check_compliance returns is PASS, FAIL,
\* PARTIAL or ERROR, never NO_CHECKS or UNKNOWN: an empty rooms sequence ends
\* in ERROR and every processed room contributes an entry with status PASS,
\* FAIL or NO_STANDARD_FOUND.
C28_ReachableStatuses ==
    /\ pc = "returned" =>
          /\ results.overall_compliance \in {"PASS", "FAIL", "PARTIAL", "ERROR"}
          /\ results.overall_compliance # "ERROR" => results.checks # <<>>
          /\ (~IsDict(report_data) \/ ~Truthy(RoomsOf(report_data)))
                 => results.overall_compliance = "ERROR"
    /\ pc \in {"room", "find_standard", "select_source", "evaluate", "returned"} =>
          \A k \in 1..Len(results.checks) :
              results.checks[k].status \in {"PASS", "FAIL", "NO_STANDARD_FOUND"}

\* a run on an empty catalog: every room without standard, PARTIAL
C28_Witness ==
    /\ pc = "returned"
    /\ standards_data \in UnusableCatalogs
    /\ results.checks # <<>>
    /\ \A k \in 1..Len(results.checks) : results.checks[k].status = "NO_STANDARD_FOUND"
    /\ results.overall_compliance = "PARTIAL"

----------------------------------------------------------------------------
(* When the resolver returns None *)

\* C29: on a loaded catalog find_matching_standard returns None exactly when
\* no record has a non-null, non-zero Uo, no record whose task_or_activity
\* equals the profile case-insensitively has a lighting field, and either the
\* profile holds none of factory, industrial, warehouse, manufacturing or no
\* record whose task_or_activity holds one of them has a lighting field; a
\* record it returns is an element of the catalog with a lighting field.
C29_NoneExactlyWhen ==
    ResolverReturned =>
        LET stds == StandardsOf(standards_data)
            p == utilisation_profile
            uniform == {i \in 1..Len(stds) : NonZero(stds[i], k_Uo)}
            exact == {i \in 1..Len(stds) : IsExact(stds[i], p) /\ HasLighting(stds[i])}
            industrial == {i \in 1..Len(stds) :
                              HasKeyword(TaskOf(stds[i]), IndustrialWords) /\ HasLighting(stds[i])}
        IN  /\ standard = Null <=>
                  /\ uniform = {}
                  /\ exact = {}
                  /\ (~HasKeyword(lower(p.str), IndustrialWords) \/ industrial = {})
            /\ standard # Null =>
                  /\ \E i \in 1..Len(stds) : stds[i] = standard
                  /\ HasLighting(standard)

\* None on a catalog whose records have lighting fields, none of them usable
\* for the profile
C29_Witness ==
    /\ ResolverReturned
    /\ standard = Null
    /\ Len(StandardsOf(standards_data)) >= 2
    /\ \A i \in 1..Len(StandardsOf(standards_data)) : HasLighting(StandardsOf(standards_data)[i])
    /\ \E i \in 1..Len(StandardsOf(standards_data)) :
           HasKeyword(TaskOf(StandardsOf(standards_data)[i]), IndustrialWords)
====
